---- MODULE Spec2Model ----
(***************************************************************************)
(* Reversi engine: bitboard move generation and application, the game      *)
(* status classifier, the root-parallel search, the Zobrist hash and the   *)
(* opening book.                                                           *)
(*                                                                         *)
(* A u64 bitboard is modelled as the set of its set bit indices, a subset  *)
(* of 0..63 (bit i is file i % 8, rank i \div 8).  x & y is \cap, x | y is *)
(* \cup, !x is the complement in 0..63, and a shift moves every index and  *)
(* drops the indices that leave 0..63, as a u64 shift drops the bits that  *)
(* leave the word.                                                         *)
(***************************************************************************)
EXTENDS Integers, FiniteSets, Sequences, TLC

\* ------------------------------------------------------------------ bounds

\* Moves applied to the board in one behaviour.
MaxPly == 3

\* ------------------------------------------------------------ u64 as a set

Bits == 0..63

\* The u64 whose four 16-bit words are w3 (bits 48..63) .. w0 (bits 0..15).
U64(w3, w2, w1, w0) ==
    LET ws == <<w0, w1, w2, w3>>
    IN  {i \in Bits : (ws[(i \div 16) + 1] \div (2 ^ (i % 16))) % 2 = 1}

\* u64::MAX and the three values below it.
ALL_ONES == Bits
ALL_ONES_1 == Bits \ {0}
ALL_ONES_2 == Bits \ {1}
ALL_ONES_3 == Bits \ {0, 1}

Not(x) == Bits \ x
Shl(x, n) == {i + n : i \in {j \in x : j + n <= 63}}
Shr(x, n) == {i - n : i \in {j \in x : j - n >= 0}}
count_ones(x) == Cardinality(x)

\* x & x.wrapping_neg(): the lowest set bit, 0 for 0.
lowest_set_bit(x) == IF x = {} THEN {} ELSE {CHOOSE i \in x : \A j \in x : i <= j}

\* ------------------------------------------------------------------ shifts

NOT_A_FILE == U64(\Hfefe, \Hfefe, \Hfefe, \Hfefe)
NOT_H_FILE == U64(\H7f7f, \H7f7f, \H7f7f, \H7f7f)

shift_north(x) == Shl(x, 8)
\* shift_east without the h-file mask: the bit wraps onto the next rank.
shift_east_unmasked(x) == Shl(x, 1)
shift_south(x) == Shr(x, 8)
shift_east(x) == Shl(x \cap NOT_H_FILE, 1)
shift_west(x) == Shr(x \cap NOT_A_FILE, 1)
shift_ne(x) == Shl(x \cap NOT_H_FILE, 9)
shift_nw(x) == Shl(x \cap NOT_A_FILE, 7)
shift_se(x) == Shr(x \cap NOT_H_FILE, 7)
shift_sw(x) == Shr(x \cap NOT_A_FILE, 9)

\* The fn(u64) -> u64 values handed to flip_in_dir, by name.
Dirs == {"north", "south", "east", "west", "ne", "nw", "se", "sw"}

shift(d, x) ==
    CASE d = "north" -> shift_north(x)
      [] d = "south" -> shift_south(x)
      [] d = "east" -> shift_east(x)
      [] d = "west" -> shift_west(x)
      [] d = "ne" -> shift_ne(x)
      [] d = "nw" -> shift_nw(x)
      [] d = "se" -> shift_se(x)
      [] d = "sw" -> shift_sw(x)

\* --------------------------------------------------------- move generation

\* One direction of compute_moves with the frontier never grown: only a
\* single opponent disc next to the mover's is stepped over.
dir_moves_not_grown(me, opp, empty, d) ==
    shift(d, shift(d, me) \cap opp) \cap empty

\* One direction of compute_moves: the frontier grown six times over opp,
\* then shifted once more onto the empty squares.
dir_moves(me, opp, empty, d) ==
    LET m1 == shift(d, me) \cap opp
        m2 == m1 \cup (shift(d, m1) \cap opp)
        m3 == m2 \cup (shift(d, m2) \cap opp)
        m4 == m3 \cup (shift(d, m3) \cap opp)
        m5 == m4 \cup (shift(d, m4) \cap opp)
        m6 == m5 \cup (shift(d, m5) \cap opp)
    IN  shift(d, m6) \cap empty

compute_moves(me, opp) ==
    LET empty == Not(me \cup opp)
    IN  UNION {dir_moves(me, opp, empty, d) : d \in Dirs}

\* -------------------------------------------------------- move application

RECURSIVE flip_loop(_, _, _, _)
\* The while loop of flip_in_dir: <<mask, flipped>> when it ends.
flip_loop(mask, flipped, opp, d) ==
    IF (mask \cap opp) # {}
    THEN flip_loop(shift(d, mask), flipped \cup mask, opp, d)
    ELSE <<mask, flipped>>

\* flip_in_dir without the test for the mover's disc that must end the run.
flip_in_dir_unanchored(move_bit, me, opp, d) ==
    flip_loop(shift(d, move_bit), {}, opp, d)[2]

flip_in_dir(move_bit, me, opp, d) ==
    LET r == flip_loop(shift(d, move_bit), {}, opp, d)
    IN  IF (r[1] \cap me) # {} THEN r[2] ELSE {}

\* apply_move_opt with the two failure tests in the other order.
apply_move_opt_flips_first(w, b, move_bit, is_white_move) ==
    LET occupied == w \cup b
        me == IF is_white_move THEN w ELSE b
        opp == IF is_white_move THEN b ELSE w
        flip_mask == UNION {flip_in_dir(move_bit, me, opp, d) : d \in Dirs}
        new_me == me \cup move_bit \cup flip_mask
        new_opp == opp \cap Not(flip_mask)
    IN  IF flip_mask = {}
        THEN [ok |-> FALSE, err |-> "No flips!", white |-> {}, black |-> {}]
        ELSE IF (move_bit \cap occupied) # {}
        THEN [ok |-> FALSE, err |-> "Square already occupied", white |-> {}, black |-> {}]
        ELSE IF is_white_move
        THEN [ok |-> TRUE, err |-> "", white |-> new_me, black |-> new_opp]
        ELSE [ok |-> TRUE, err |-> "", white |-> new_opp, black |-> new_me]

\* apply_move_opt that leaves the flipped discs in the opponent's bitboard.
apply_move_opt_keeps_opp(w, b, move_bit, is_white_move) ==
    LET occupied == w \cup b
        me == IF is_white_move THEN w ELSE b
        opp == IF is_white_move THEN b ELSE w
        flip_mask == UNION {flip_in_dir(move_bit, me, opp, d) : d \in Dirs}
        new_me == me \cup move_bit \cup flip_mask
    IN  IF (move_bit \cap occupied) # {}
        THEN [ok |-> FALSE, err |-> "Square already occupied", white |-> {}, black |-> {}]
        ELSE IF flip_mask = {}
        THEN [ok |-> FALSE, err |-> "No flips!", white |-> {}, black |-> {}]
        ELSE IF is_white_move
        THEN [ok |-> TRUE, err |-> "", white |-> new_me, black |-> opp]
        ELSE [ok |-> TRUE, err |-> "", white |-> opp, black |-> new_me]

\* Result<(u64, u64), &str>: [ok |-> TRUE, white, black] or [ok |-> FALSE, err].
apply_move_opt(w, b, move_bit, is_white_move) ==
    LET occupied == w \cup b
        me == IF is_white_move THEN w ELSE b
        opp == IF is_white_move THEN b ELSE w
        flip_mask == UNION {flip_in_dir(move_bit, me, opp, d) : d \in Dirs}
        new_me == me \cup move_bit \cup flip_mask
        new_opp == opp \cap Not(flip_mask)
    IN  IF (move_bit \cap occupied) # {}
        THEN [ok |-> FALSE, err |-> "Square already occupied", white |-> {}, black |-> {}]
        ELSE IF flip_mask = {}
        THEN [ok |-> FALSE, err |-> "No flips!", white |-> {}, black |-> {}]
        ELSE IF is_white_move
        THEN [ok |-> TRUE, err |-> "", white |-> new_me, black |-> new_opp]
        ELSE [ok |-> TRUE, err |-> "", white |-> new_opp, black |-> new_me]

\* ------------------------------------------ move application, by direction

\* DIRECTIONS: the (dx, dy) steps
DIRECTIONS ==
    << <<-1, -1>>, <<-1, 0>>, <<-1, 1>>, <<0, -1>>,
       <<0, 1>>, <<1, -1>>, <<1, 0>>, <<1, 1>> >>

\* u64::trailing_zeros: the index of the lowest set bit, 64 for 0
trailing_zeros(x) ==
    IF x = {} THEN 64 ELSE CHOOSE i \in x : \A j \in x : i <= j

RECURSIVE scan_loop(_, _, _, _, _, _, _, _)
\* The while loop of one direction from (x, y): what the direction adds to
\* flips.
scan_loop(player, opponent, x, y, dx, dy, current_flips, found_opponent) ==
    IF x >= 0 /\ x < 8 /\ y >= 0 /\ y < 8
    THEN IF (opponent \cap {y * 8 + x}) # {}
         THEN scan_loop(player, opponent, x + dx, y + dy, dx, dy,
                        current_flips \cup {y * 8 + x}, TRUE)
         ELSE IF (player \cap {y * 8 + x}) # {}
         THEN IF found_opponent THEN current_flips ELSE {}
         ELSE {}
    ELSE {}

\* The for loop over DIRECTIONS: flips.
scan_flips(player, opponent, move_bit) ==
    UNION { scan_loop(player, opponent,
                      (trailing_zeros(move_bit) % 8) + DIRECTIONS[d][1],
                      (trailing_zeros(move_bit) \div 8) + DIRECTIONS[d][2],
                      DIRECTIONS[d][1], DIRECTIONS[d][2], {}, FALSE)
            : d \in DOMAIN DIRECTIONS }

\* The end of apply_move, from "if flips == 0".
scan_result(player, opponent, move_bit, is_white_move, flips) ==
    IF flips = {}
    THEN [ok |-> FALSE, err |-> "Invalid move, no discs flipped",
          white |-> {}, black |-> {}]
    ELSE IF is_white_move
    THEN [ok |-> TRUE, err |-> "",
          white |-> player \cup move_bit \cup flips,
          black |-> opponent \cap Not(flips)]
    ELSE [ok |-> TRUE, err |-> "",
          white |-> opponent \cap Not(flips),
          black |-> player \cup move_bit \cup flips]

\* apply_move without its test of the square
apply_move_unchecked(w, b, move_bit, is_white_move) ==
    scan_result(IF is_white_move THEN w ELSE b, IF is_white_move THEN b ELSE w,
                move_bit, is_white_move,
                scan_flips(IF is_white_move THEN w ELSE b,
                           IF is_white_move THEN b ELSE w, move_bit))

\* apply_move of main.rs: Ok((next_white, next_black)) or Err
apply_move(w, b, move_bit, is_white_move) ==
    IF ((w \cup b) \cap move_bit) # {}
    THEN [ok |-> FALSE, err |-> "Square already occupied",
          white |-> {}, black |-> {}]
    ELSE scan_result(IF is_white_move THEN w ELSE b,
                     IF is_white_move THEN b ELSE w,
                     move_bit, is_white_move,
                     scan_flips(IF is_white_move THEN w ELSE b,
                                IF is_white_move THEN b ELSE w, move_bit))

\* apply_move_verbose of utils.rs: the same statements as apply_move
apply_move_verbose(w, b, move_bit, is_white_move) ==
    IF ((w \cup b) \cap move_bit) # {}
    THEN [ok |-> FALSE, err |-> "Square already occupied",
          white |-> {}, black |-> {}]
    ELSE scan_result(IF is_white_move THEN w ELSE b,
                     IF is_white_move THEN b ELSE w,
                     move_bit, is_white_move,
                     scan_flips(IF is_white_move THEN w ELSE b,
                                IF is_white_move THEN b ELSE w, move_bit))

\* ------------------------------------------------------------- game status

\* check_game_status_alt with the two winners' values exchanged.
check_game_status_alt_swapped(w, b, is_white_move) ==
    LET me == IF is_white_move THEN w ELSE b
        opp == IF is_white_move THEN b ELSE w
        my_moves == compute_moves(me, opp)
        opp_moves == compute_moves(opp, me)
        white_count == count_ones(w)
        black_count == count_ones(b)
    IN  IF my_moves # {} THEN my_moves
        ELSE IF opp_moves # {} THEN ALL_ONES
        ELSE IF white_count > black_count THEN ALL_ONES_1
        ELSE IF black_count > white_count THEN ALL_ONES_2
        ELSE ALL_ONES_3

check_game_status_alt(w, b, is_white_move) ==
    LET me == IF is_white_move THEN w ELSE b
        opp == IF is_white_move THEN b ELSE w
        my_moves == compute_moves(me, opp)
        opp_moves == compute_moves(opp, me)
        white_count == count_ones(w)
        black_count == count_ones(b)
    IN  IF my_moves # {} THEN my_moves
        ELSE IF opp_moves # {} THEN ALL_ONES
        ELSE IF white_count > black_count THEN ALL_ONES_2
        ELSE IF black_count > white_count THEN ALL_ONES_1
        ELSE ALL_ONES_3

\* ------------------------------------------------------------------ inputs

\* Positions the source itself names: the start of local_game and
\* generate_opening_book, the positions of the unit tests and the game
\* positions quoted in local_game's comments.
StartWhite == U64(\H0000, \H0010, \H0800, \H0000)
StartBlack == U64(\H0000, \H0008, \H1000, \H0000)

SeedBoards ==
    { [white |-> StartWhite, black |-> StartBlack],
      \* test_apply_move_opt: 35253361508352, 171935537184
      [white |-> U64(\H0000, \H2010, \H1017, \H0000), black |-> U64(\H0000, \H0028, \H0828, \H1820)],
      \* test_check_game_status_alt_both_sides_have_no_moves_white_wins
      [white |-> U64(\Hc5e5, \Hffff, \Hfbff, \Hffff), black |-> U64(\H0000, \H0000, \H0400, \H0000)],
      \* ..._black_wins
      [white |-> U64(\H0000, \H0000, \H0400, \H0000), black |-> U64(\Hc5e5, \Hffff, \Hfbff, \Hffff)],
      \* ..._tie
      [white |-> U64(\H0000, \H0000, \Hffff, \Hffff), black |-> U64(\Hffff, \Hffff, \H0000, \H0000)],
      \* test_compute_moves_all_filled_but_one
      [white |-> U64(\Hffff, \Hffff, \Hffff, \He3ff), black |-> U64(\H0000, \H0000, \H0000, \H0c00)],
      \* test_eval_position: 4325574457067520514, 33909430323788925
      [white |-> U64(\H3c07, \H870d, \H0303, \H4202), black |-> U64(\H0078, \H7872, \H7cfc, \H3c7d)],
      \* local_game comments: 4474012615487561982, 4713330624348249857
      [white |-> U64(\H3e16, \He2c4, \Hfac0, \Ha0fe), black |-> U64(\H4169, \H1d3b, \H053f, \H5f01)],
      \* local_game comments: 4330122384527982082, 29361505010844157
      [white |-> U64(\H3c17, \Haf5d, \He3c1, \Hfe02), black |-> U64(\H0068, \H5022, \H1c3e, \H01fd)],
      \* local_game, commented-out start: 36310151199708159, 120795966464
      [white |-> U64(\H0080, \Hffe3, \Hdfff, \Hd3ff), black |-> U64(\H0000, \H001c, \H2000, \H2c00)] }

\* ------------------------------------------------------------ Zobrist hash

\* ZOBRIST_TABLE[cell][color], color 0 for white and 1 for black: 128 random
\* u64 keys.  A key is modelled as the one-element set {<<cell, color>>} and
\* ^ as the symmetric difference, so a hash is the set of the keys that
\* occur in it an odd number of times (the keys are taken as independent:
\* no XOR of distinct keys is 0).
ZOBRIST_TABLE(cell, color) == {<<cell, color>>}

Xor(a, b) == (a \ b) \cup (b \ a)

compute_zobrist_hash(pos) ==
    UNION {IF cell \in pos.white THEN ZOBRIST_TABLE(cell, 0)
           ELSE IF cell \in pos.black THEN ZOBRIST_TABLE(cell, 1)
           ELSE {} : cell \in Bits}

\* x.trailing_zeros() of a single-bit mask.
table_pos(x) == CHOOSE i \in x : \A j \in x : i <= j

RECURSIVE zobrist_flip_loop(_, _, _)
\* The while loop of update_zobrist_hash over the flipped mask.
zobrist_flip_loop(flipped, new_hash, color) ==
    IF flipped = {} THEN new_hash
    ELSE LET tmp == lowest_set_bit(flipped)
         IN  zobrist_flip_loop(flipped \ tmp,
                               Xor(new_hash, ZOBRIST_TABLE(table_pos(tmp), color)),
                               color)

\* pos: [white_to_move, last_move, flips], the fields the function reads.
update_zobrist_hash(pos, hash) ==
    LET color == IF pos.white_to_move THEN 0 ELSE 1
    IN  zobrist_flip_loop(pos.flips,
                          Xor(hash, ZOBRIST_TABLE(table_pos(pos.last_move), color)),
                          color)

\* ------------------------------------------------------ transposition table

\* A hash is a natural number here: the table uses only its low bits and
\* compares it for equality.
RECURSIVE Pow2(_)

\* 1 << n
Pow2(n) == IF n = 0 THEN 1 ELSE 2 * Pow2(n - 1)

RECURSIVE BitAnd(_, _)

\* a & b, bit by bit
BitAnd(a, b) ==
    IF a = 0 \/ b = 0
    THEN 0
    ELSE (a % 2) * (b % 2) + 2 * BitAnd(a \div 2, b \div 2)

\* TTFlag
TTFlag == {"Exact", "AlphaBound", "BetaBound", "NotFound"}

\* TTEntry::default()
TTEntry_default == [key |-> 0, flag |-> "NotFound", value |-> 0, best_move |-> 0]

\* TranspositionTable::default(): no slot at all.  entries is indexed from 0.
TranspositionTable_default == [entries |-> <<>>, size |-> 0]

\* (hash & (1 << size) - 1) as usize: the subtraction binds before the &
find_index(hash, size) == BitAnd(hash, Pow2(size) - 1)

\* TranspositionTable::new(size): 1 << size default entries
new(size) == [entries |-> [i \in 0..(Pow2(size) - 1) |-> TTEntry_default],
              size |-> size]

\* insert_position that writes only to a slot never written
tt_insert_position_if_empty(self, hash, eval, kind, mv) ==
    IF self.entries[find_index(hash, self.size)] = TTEntry_default
    THEN [self EXCEPT !.entries[find_index(hash, self.size)] =
            [key |-> hash, flag |-> kind, value |-> eval, best_move |-> mv]]
    ELSE self

\* TranspositionTable::insert_position(hash, eval, kind, mv)
tt_insert_position(self, hash, eval, kind, mv) ==
    [self EXCEPT !.entries[find_index(hash, self.size)] =
        [key |-> hash, flag |-> kind, value |-> eval, best_move |-> mv]]

\* probe with the two bound tests exchanged
probe_bounds_swapped(self, hash, alpha, beta) ==
    LET entry == self.entries[find_index(hash, self.size)]
    IN  IF entry.key # hash
        THEN <<-163840, 0>>
        ELSE CASE entry.flag = "NotFound" -> <<-163840, 0>>
               [] entry.flag = "Exact" -> <<entry.value, entry.best_move>>
               [] entry.flag = "AlphaBound" ->
                    IF entry.value <= alpha
                    THEN <<entry.value, entry.best_move>>
                    ELSE <<-163840, 0>>
               [] entry.flag = "BetaBound" ->
                    IF entry.value >= beta
                    THEN <<entry.value, entry.best_move>>
                    ELSE <<-163840, 0>>

\* TranspositionTable::probe(hash, alpha, beta): (value, best_move) of the
\* slot, or (-163840, 0)
probe(self, hash, alpha, beta) ==
    LET entry == self.entries[find_index(hash, self.size)]
    IN  IF entry.key # hash
        THEN <<-163840, 0>>
        ELSE CASE entry.flag = "NotFound" -> <<-163840, 0>>
               [] entry.flag = "Exact" -> <<entry.value, entry.best_move>>
               [] entry.flag = "AlphaBound" ->
                    IF entry.value >= beta
                    THEN <<entry.value, entry.best_move>>
                    ELSE <<-163840, 0>>
               [] entry.flag = "BetaBound" ->
                    IF entry.value <= alpha
                    THEN <<entry.value, entry.best_move>>
                    ELSE <<-163840, 0>>

\* ---------------------------------------------------------------- evaluator

\* EvalCfg; DEFAULT_CFG is the weight set of the engine.
DEFAULT_CFG ==
    [corner_value |-> 70, edge_value |-> 17, antiedge_value |-> -22,
     anticorner_value |-> -34]

CORNER_MASK == U64(\H8100, \H0000, \H0000, \H0081)
EDGE_MASK == U64(\H42c3, \H0000, \H0000, \Hc342)
\* 4792111478498951490 = 0x4281000000008142
ANTIEDGE_MASK == U64(\H4281, \H0000, \H0000, \H8142)
\* 18577348462920192 = 0x0042000000004200
ANTICORNER_MASK == U64(\H0042, \H0000, \H0000, \H4200)

\* One side's score in eval_position_with_cfg.
side_score(x, eval_cfg) ==
    count_ones(x \cap CORNER_MASK) * eval_cfg.corner_value
    + count_ones(x \cap EDGE_MASK) * eval_cfg.edge_value
    + count_ones(x)
    + count_ones(x \cap ANTIEDGE_MASK) * eval_cfg.antiedge_value
    + count_ones(x \cap ANTICORNER_MASK) * eval_cfg.anticorner_value

\* eval_position_with_cfg with the two sides exchanged
eval_position_with_cfg_white_first(w, b, eval_cfg) ==
    side_score(w, eval_cfg) - side_score(b, eval_cfg)

eval_position_with_cfg(w, b, eval_cfg) ==
    side_score(b, eval_cfg) - side_score(w, eval_cfg)

\* One side's score in eval_position of main.rs.
legacy_side_score(x) ==
    count_ones(x \cap CORNER_MASK) * 10
    + count_ones(x \cap EDGE_MASK) * 5
    + count_ones(x)

\* eval_position of main.rs: the evaluator with no EvalCfg
eval_position(w, b) == legacy_side_score(b) - legacy_side_score(w)

\* ------------------------------------------------------------------- search

I32_MIN == -2147483647 - 1

RECURSIVE bits_low_first(_)
\* The loop of find_legal_moves_alt: the bits of a mask, lowest first.
bits_low_first(tmp) ==
    IF tmp = {} THEN <<>>
    ELSE LET bit == lowest_set_bit(tmp)
         IN  <<bit>> \o bits_low_first(tmp \ bit)

\* Vec<u64> of single-bit masks.
find_legal_moves_alt(w, b, is_white_to_move) ==
    LET me == IF is_white_to_move THEN w ELSE b
        opp == IF is_white_to_move THEN b ELSE w
    IN  bits_low_first(compute_moves(me, opp))

\* The mate-distance step: one point towards 0 beyond +-5000.
compress(orig_eval) ==
    IF orig_eval > 5000 THEN orig_eval - 1
    ELSE IF orig_eval < -5000 THEN orig_eval + 1
    ELSE orig_eval

RECURSIVE search_moves_opt(_, _, _, _, _, _, _, _)
RECURSIVE opt_loop(_, _, _, _, _, _, _)

\* The head of the loop body of search_moves_opt: the candidate taken, from
\* the first non-empty mask of corner, edge, other and the rest, and the
\* loop's variables with the candidate cleared from that mask.
next_candidate(st) ==
    IF st.corner_moves # {}
    THEN [candidate |-> lowest_set_bit(st.corner_moves),
          st |-> [st EXCEPT !.corner_moves = @ \ lowest_set_bit(@)]]
    ELSE IF st.edge_moves # {}
    THEN [candidate |-> lowest_set_bit(st.edge_moves),
          st |-> [st EXCEPT !.edge_moves = @ \ lowest_set_bit(@)]]
    ELSE IF st.other_moves # {}
    THEN [candidate |-> lowest_set_bit(st.other_moves),
          st |-> [st EXCEPT !.other_moves = @ \ lowest_set_bit(@)]]
    ELSE [candidate |-> lowest_set_bit(st.shit_moves),
          st |-> [st EXCEPT !.shit_moves = @ \ lowest_set_bit(@)]]

\* The tail of the loop body with each side's cutoff tested against the
\* other bound
opt_update_other_bound(w, b, is_white_move, depth, orig_depth, cfg, st, candidate, orig_eval) ==
    LET eval == IF is_white_move THEN -1 * orig_eval ELSE orig_eval
        st2 == [st EXCEPT !.best_orig_eval = orig_eval, !.best_eval = eval,
                          !.best_move = candidate]
    IN  IF ~(eval > st.best_eval)
        THEN opt_loop(w, b, is_white_move, depth, orig_depth, cfg, st)
        ELSE IF is_white_move
        THEN IF orig_eval < st.local_beta
             THEN <<candidate, orig_eval>>
             ELSE opt_loop(w, b, is_white_move, depth, orig_depth, cfg,
                           [st2 EXCEPT !.local_beta = orig_eval])
        ELSE IF orig_eval > st.local_alpha
             THEN <<candidate, orig_eval>>
             ELSE opt_loop(w, b, is_white_move, depth, orig_depth, cfg,
                           [st2 EXCEPT !.local_alpha = orig_eval])

\* The tail of the loop body: orig_eval is compared with the best so far
\* and with the window; a cutoff returns at once.
opt_update(w, b, is_white_move, depth, orig_depth, cfg, st, candidate, orig_eval) ==
    LET eval == IF is_white_move THEN -1 * orig_eval ELSE orig_eval
        st2 == [st EXCEPT !.best_orig_eval = orig_eval, !.best_eval = eval,
                          !.best_move = candidate]
    IN  IF ~(eval > st.best_eval)
        THEN opt_loop(w, b, is_white_move, depth, orig_depth, cfg, st)
        ELSE IF is_white_move
        THEN IF orig_eval < st.local_alpha
             THEN <<candidate, orig_eval>>
             ELSE opt_loop(w, b, is_white_move, depth, orig_depth, cfg,
                           [st2 EXCEPT !.local_beta = orig_eval])
        ELSE IF orig_eval > st.local_beta
             THEN <<candidate, orig_eval>>
             ELSE opt_loop(w, b, is_white_move, depth, orig_depth, cfg,
                           [st2 EXCEPT !.local_alpha = orig_eval])

\* The loop body once the child is valued: child is <<new_move, orig_eval>>.
opt_child(w, b, is_white_move, depth, orig_depth, cfg, st, candidate, child) ==
    IF depth # 0 /\ child[1] = {}
    THEN opt_loop(w, b, is_white_move, depth, orig_depth, cfg, st)
    ELSE opt_update(w, b, is_white_move, depth, orig_depth, cfg, st, candidate,
                    compress(child[2]))

\* The loop body once apply_move has answered.
opt_applied(w, b, is_white_move, depth, orig_depth, cfg, st, candidate, new_pos_opt) ==
    IF ~new_pos_opt.ok
    THEN opt_loop(w, b, is_white_move, depth, orig_depth, cfg, st)
    ELSE opt_child(w, b, is_white_move, depth, orig_depth, cfg, st, candidate,
             IF depth = 0
             THEN <<ALL_ONES,
                    eval_position_with_cfg(new_pos_opt.white, new_pos_opt.black, cfg)>>
             ELSE search_moves_opt(new_pos_opt.white, new_pos_opt.black,
                                   ~is_white_move, depth - 1, st.local_alpha,
                                   st.local_beta, orig_depth, cfg))

\* The loop body for the candidate taken.
opt_candidate(w, b, is_white_move, depth, orig_depth, cfg, nc) ==
    opt_applied(w, b, is_white_move, depth, orig_depth, cfg, nc.st, nc.candidate,
                apply_move_opt(w, b, nc.candidate, is_white_move))

\* The move loop of search_moves_opt.  st holds the loop's variables: the
\* four masks of candidates still to try, best_move, best_eval,
\* best_orig_eval, local_alpha, local_beta.  The result is the <<move, eval>>
\* the function returns.
opt_loop(w, b, is_white_move, depth, orig_depth, cfg, st) ==
    IF st.corner_moves = {} /\ st.edge_moves = {} /\ st.other_moves = {}
       /\ st.shit_moves = {}
    THEN <<st.best_move, st.best_orig_eval>>
    ELSE opt_candidate(w, b, is_white_move, depth, orig_depth, cfg,
                       next_candidate(st))

\* The four masks the move loop of search_moves_opt starts from.
move_classes(outcome) ==
    [corner_moves |-> outcome \cap CORNER_MASK,
     edge_moves |-> (outcome \cap EDGE_MASK) \cap Not(ANTIEDGE_MASK),
     other_moves |-> outcome \cap Not(CORNER_MASK \cup EDGE_MASK
                         \cup ANTIEDGE_MASK \cup ANTICORNER_MASK),
     shit_moves |-> outcome \cap (ANTIEDGE_MASK \cup ANTICORNER_MASK)]

\* search_moves_opt from its second line on, outcome being the status.
opt_on_status(w, b, is_white_move, depth, alpha, beta, orig_depth, cfg, outcome) ==
    IF outcome = ALL_ONES_2 THEN <<ALL_ONES, -10000>>
    ELSE IF outcome = ALL_ONES_1 THEN <<ALL_ONES, 10000>>
    ELSE IF outcome = ALL_ONES_3 THEN <<ALL_ONES, 0>>
    ELSE IF outcome = ALL_ONES
    THEN <<ALL_ONES,
           search_moves_opt(w, b, ~is_white_move, depth, alpha, beta,
                            orig_depth, cfg)[2]>>
    ELSE IF depth = 0
    THEN <<ALL_ONES, eval_position_with_cfg(w, b, cfg)>>
    ELSE opt_loop(w, b, is_white_move, depth, orig_depth, cfg,
             [corner_moves |-> move_classes(outcome).corner_moves,
              edge_moves |-> move_classes(outcome).edge_moves,
              other_moves |-> move_classes(outcome).other_moves,
              shit_moves |-> move_classes(outcome).shit_moves,
              best_move |-> ALL_ONES,
              best_eval |-> I32_MIN,
              best_orig_eval |-> 0,
              local_alpha |-> alpha,
              local_beta |-> beta])

\* search_moves_opt of the engine: <<move, eval>>.
search_moves_opt(w, b, is_white_move, depth, alpha, beta, orig_depth, cfg) ==
    opt_on_status(w, b, is_white_move, depth, alpha, beta, orig_depth, cfg,
                  check_game_status_alt(w, b, is_white_move))

RECURSIVE opt_windows(_, _, _, _, _, _, _)

\* The move loop of search_moves_opt at depth > 0, seen from its recursive
\* calls: the <<local_alpha, local_beta>> handed to the children, in the
\* order of the calls.  A candidate apply_move refuses makes no call; after
\* the call, a child that returns the move 0 or an eval that is no better
\* leaves the loop's variables as they are, a cutoff ends the loop, and
\* otherwise orig_eval becomes local_beta (white to move) or local_alpha.
opt_windows(w, b, is_white_move, depth, orig_depth, cfg, st) ==
    IF st.corner_moves = {} /\ st.edge_moves = {} /\ st.other_moves = {}
       /\ st.shit_moves = {}
    THEN <<>>
    ELSE
      LET nc == next_candidate(st)
          new_pos_opt == apply_move_opt(w, b, nc.candidate, is_white_move)
          child == search_moves_opt(new_pos_opt.white, new_pos_opt.black,
                                    ~is_white_move, depth - 1, nc.st.local_alpha,
                                    nc.st.local_beta, orig_depth, cfg)
          orig_eval == compress(child[2])
          eval == IF is_white_move THEN -1 * orig_eval ELSE orig_eval
          st2 == [nc.st EXCEPT !.best_orig_eval = orig_eval, !.best_eval = eval,
                               !.best_move = nc.candidate]
      IN  IF ~new_pos_opt.ok
          THEN opt_windows(w, b, is_white_move, depth, orig_depth, cfg, nc.st)
          ELSE <<<<nc.st.local_alpha, nc.st.local_beta>>>>
               \o (IF child[1] = {} \/ ~(eval > nc.st.best_eval)
                   THEN opt_windows(w, b, is_white_move, depth, orig_depth, cfg,
                                    nc.st)
                   ELSE IF is_white_move
                   THEN IF orig_eval < nc.st.local_alpha
                        THEN <<>>
                        ELSE opt_windows(w, b, is_white_move, depth, orig_depth,
                                 cfg, [st2 EXCEPT !.local_beta = orig_eval])
                   ELSE IF orig_eval > nc.st.local_beta
                        THEN <<>>
                        ELSE opt_windows(w, b, is_white_move, depth, orig_depth,
                                 cfg, [st2 EXCEPT !.local_alpha = orig_eval]))

\* The loop's variables when search_moves_opt enters its move loop.
opt_loop_start(outcome, alpha, beta) ==
    [corner_moves |-> move_classes(outcome).corner_moves,
     edge_moves |-> move_classes(outcome).edge_moves,
     other_moves |-> move_classes(outcome).other_moves,
     shit_moves |-> move_classes(outcome).shit_moves,
     best_move |-> ALL_ONES,
     best_eval |-> I32_MIN,
     best_orig_eval |-> 0,
     local_alpha |-> alpha,
     local_beta |-> beta]

\* The identity of the parallel reduce: (0, i32::MIN, i32::MIN).
reduce_identity == <<{}, I32_MIN, I32_MIN>>

\* The reduce operator with the comparison turned round.
reduce_op_reversed(acc, x) == IF x[2] < acc[2] /\ x[1] # {} THEN x ELSE acc

\* The reduce operator taking an equal eval too.
reduce_op_or_equal(acc, x) == IF x[2] >= acc[2] /\ x[1] # {} THEN x ELSE acc

\* The reduce operator on (candidate, eval, orig_eval) triples.
reduce_op(acc, x) == IF x[2] > acc[2] /\ x[1] # {} THEN x ELSE acc

RECURSIVE fold_segment(_, _, _, _)
\* One worker's share: items i..j of xs folded in order into accs.  Every
\* item of xs is the set of the triples its map closure may yield, and accs
\* the set of accumulators possible so far.
fold_segment(accs, xs, i, j) ==
    IF i > j THEN accs
    ELSE fold_segment({reduce_op(a, x) : a \in accs, x \in xs[i]}, xs, i + 1, j)

RECURSIVE reduce_row(_, _, _, _)
\* T[len][i] holds every value the reduce of the len items from item i on
\* can take, whichever way the items are grouped.  reduce_row is the row of
\* length len from its i-th entry on, computed from the shorter rows: the
\* items are folded by one worker from the identity, or split after k items
\* into two parts reduced apart and joined by reduce_op(left, right).
reduce_row(xs, T, len, i) ==
    IF i + len - 1 > Len(xs) THEN <<>>
    ELSE <<fold_segment({reduce_identity}, xs, i, i + len - 1)
           \cup UNION {{reduce_op(l, r) : l \in T[k][i], r \in T[len - k][i + k]} :
                       k \in 1..(len - 1)}>>
         \o reduce_row(xs, T, len, i + 1)

RECURSIVE reduce_table(_, _)
reduce_table(xs, T) ==
    IF Len(T) = Len(xs) THEN T
    ELSE reduce_table(xs, Append(T, reduce_row(xs, T, Len(T) + 1, 1)))

\* into_par_iter().map(..).reduce(identity, op): the set of possible results.
par_reduce(xs) ==
    IF xs = <<>> THEN {reduce_identity}
    ELSE reduce_table(xs, <<>>)[Len(xs)][1]

RECURSIVE search_moves_par(_, _, _, _, _, _, _, _)

\* The map closure of search_moves_par once apply_move has answered: the set
\* of the (candidate, eval, orig_eval) triples it can return.
par_applied(w, b, is_white_move, depth, alpha, beta, orig_depth, cfg, candidate, new_pos_opt) ==
    IF ~new_pos_opt.ok THEN {<<{}, 0, 0>>}
    ELSE IF depth = 0
    THEN {<<candidate, IF is_white_move THEN -r ELSE r, r>> :
             r \in {eval_position_with_cfg(new_pos_opt.white, new_pos_opt.black, cfg)}}
    ELSE IF orig_depth - depth > 0
    THEN {<<candidate, IF is_white_move THEN -r[2] ELSE r[2], r[2]>> :
             r \in {search_moves_opt(new_pos_opt.white, new_pos_opt.black,
                                     ~is_white_move, depth - 1, alpha, beta,
                                     orig_depth, cfg)}}
    ELSE {<<candidate,
            IF is_white_move THEN -compress(r[2]) ELSE compress(r[2]),
            compress(r[2])>> :
             r \in search_moves_par(new_pos_opt.white, new_pos_opt.black,
                                    ~is_white_move, depth - 1, alpha, beta,
                                    orig_depth, cfg)}

\* The map closure of search_moves_par on one candidate.
par_candidate(w, b, is_white_move, depth, alpha, beta, orig_depth, cfg, candidate) ==
    par_applied(w, b, is_white_move, depth, alpha, beta, orig_depth, cfg, candidate,
                apply_move_opt(w, b, candidate, is_white_move))

RECURSIVE par_map(_, _, _, _, _, _, _, _, _)
\* The mapped candidates of search_moves_par, in the vector's order.
par_map(w, b, is_white_move, depth, alpha, beta, orig_depth, cfg, possible_moves) ==
    IF possible_moves = <<>> THEN <<>>
    ELSE <<par_candidate(w, b, is_white_move, depth, alpha, beta, orig_depth,
                         cfg, Head(possible_moves))>>
         \o par_map(w, b, is_white_move, depth, alpha, beta, orig_depth, cfg,
                    Tail(possible_moves))

\* search_moves_par from the depth test on, outcome being the status: the
\* set of the <<move, eval>> it can return, one for every way the parallel
\* reduce may group the candidates.
par_on_moves(w, b, is_white_move, depth, alpha, beta, orig_depth, cfg, outcome, possible_moves) ==
    IF Len(possible_moves) = 0 /\ outcome = ALL_ONES
    THEN IF depth = orig_depth
         THEN {<<ALL_ONES, eval_position_with_cfg(w, b, cfg)>>}
         ELSE {<<ALL_ONES,
                 search_moves_opt(w, b, ~is_white_move, depth - 1, alpha,
                                  beta, orig_depth, cfg)[2]>>}
    ELSE {<<t[1], t[3]>> :
             t \in par_reduce(par_map(w, b, is_white_move, depth, alpha, beta,
                                      orig_depth, cfg, possible_moves))}

\* search_moves_par from its second line on.
par_on_status(w, b, is_white_move, depth, alpha, beta, orig_depth, cfg, outcome) ==
    IF outcome = ALL_ONES_2 THEN {<<ALL_ONES, -10000>>}
    ELSE IF outcome = ALL_ONES_1 THEN {<<ALL_ONES, 10000>>}
    ELSE IF outcome = ALL_ONES_3 THEN {<<ALL_ONES, 0>>}
    ELSE IF depth = 0
    THEN {<<ALL_ONES, eval_position_with_cfg(w, b, cfg)>>}
    ELSE par_on_moves(w, b, is_white_move, depth, alpha, beta, orig_depth, cfg,
                      outcome, find_legal_moves_alt(w, b, is_white_move))

\* search_moves_par with the depth test ahead of the game-over tests.
search_moves_par_depth_first(w, b, is_white_move, depth, alpha, beta, orig_depth, cfg) ==
    IF depth = 0
    THEN {<<ALL_ONES, eval_position_with_cfg(w, b, cfg)>>}
    ELSE par_on_status(w, b, is_white_move, depth, alpha, beta, orig_depth, cfg,
                       check_game_status_alt(w, b, is_white_move))

\* search_moves_par of the engine.
search_moves_par(w, b, is_white_move, depth, alpha, beta, orig_depth, cfg) ==
    par_on_status(w, b, is_white_move, depth, alpha, beta, orig_depth, cfg,
                  check_game_status_alt(w, b, is_white_move))

\* ------------------------------------------------ the searches' own calls

\* The positions left by the candidates apply_move accepts.
applied_children(w, b, is_white_move, moves) ==
    {r \in {apply_move_opt(w, b, {s}, is_white_move) : s \in moves} : r.ok}

\* opt_calls with the loop's recursion at the depth of the caller.
opt_calls_same_depth(w, b, is_white_move, depth, outcome) ==
    IF outcome \in {ALL_ONES_1, ALL_ONES_2, ALL_ONES_3} THEN {}
    ELSE IF outcome = ALL_ONES
    THEN {[fn |-> "opt", white |-> w, black |-> b,
           is_white_move |-> ~is_white_move, depth |-> depth]}
    ELSE IF depth = 0 THEN {}
    ELSE {[fn |-> "opt", white |-> r.white, black |-> r.black,
           is_white_move |-> ~is_white_move, depth |-> depth] :
             r \in applied_children(w, b, is_white_move, outcome)}

\* The calls one search_moves_opt makes on itself when no cutoff ends its
\* loop, outcome being the status: none on a finished game and at depth 0,
\* the same board with the side flipped at the same depth on a pass, and
\* every child at depth - 1.
opt_calls(w, b, is_white_move, depth, outcome) ==
    IF outcome \in {ALL_ONES_1, ALL_ONES_2, ALL_ONES_3} THEN {}
    ELSE IF outcome = ALL_ONES
    THEN {[fn |-> "opt", white |-> w, black |-> b,
           is_white_move |-> ~is_white_move, depth |-> depth]}
    ELSE IF depth = 0 THEN {}
    ELSE {[fn |-> "opt", white |-> r.white, black |-> r.black,
           is_white_move |-> ~is_white_move, depth |-> depth - 1] :
             r \in applied_children(w, b, is_white_move, outcome)}

\* The calls one search_moves_par makes: none on a finished game, at depth
\* 0 and on a pass at the root; search_moves_opt at depth - 1 on a pass
\* below the root; and for every child search_moves_opt below the root,
\* search_moves_par at the root, at depth - 1.
par_calls(w, b, is_white_move, depth, orig_depth, outcome) ==
    IF outcome \in {ALL_ONES_1, ALL_ONES_2, ALL_ONES_3} \/ depth = 0 THEN {}
    ELSE IF outcome = ALL_ONES
    THEN IF depth = orig_depth THEN {}
         ELSE {[fn |-> "opt", white |-> w, black |-> b,
                is_white_move |-> ~is_white_move, depth |-> depth - 1]}
    ELSE {[fn |-> IF orig_depth - depth > 0 THEN "opt" ELSE "par",
           white |-> r.white, black |-> r.black,
           is_white_move |-> ~is_white_move, depth |-> depth - 1] :
             r \in applied_children(w, b, is_white_move, outcome)}

\* ------------------------------------------------------ search of main.rs

\* check_game_status of main.rs: 1 white has more, 2 black has more, 0 a
\* tie, 3 the game goes on
check_game_status(w, b) ==
    IF (w \cup b) = ALL_ONES
    THEN IF count_ones(w) > count_ones(b) THEN 1
         ELSE IF count_ones(b) > count_ones(w) THEN 2
         ELSE 0
    ELSE IF compute_moves(w, b) # {} \/ compute_moves(b, w) # {}
    THEN 3
    ELSE IF count_ones(w) > count_ones(b) THEN 1
         ELSE IF count_ones(b) > count_ones(w) THEN 2
         ELSE 0

\* "Prioritizing shorter win paths": one point towards 0 beyond +-500.
main_compress(orig_eval) ==
    IF orig_eval > 500 THEN orig_eval - 1
    ELSE IF orig_eval < -500 THEN orig_eval + 1
    ELSE orig_eval

RECURSIVE main_search_moves_opt(_, _, _, _, _, _, _)
RECURSIVE main_opt_loop(_, _, _, _, _, _)

\* The tail of the loop body of main.rs's search_moves_opt.
main_opt_update(w, b, is_white_move, depth, orig_depth, st, candidate, orig_eval) ==
    LET eval == IF is_white_move THEN -1 * orig_eval ELSE orig_eval
        st2 == [st EXCEPT !.best_orig_eval = orig_eval, !.best_eval = eval,
                          !.best_move = candidate]
    IN  IF ~(eval > st.best_eval)
        THEN main_opt_loop(w, b, is_white_move, depth, orig_depth, st)
        ELSE IF is_white_move
        THEN IF orig_eval < st.local_alpha
             THEN <<candidate, orig_eval>>
             ELSE main_opt_loop(w, b, is_white_move, depth, orig_depth,
                                [st2 EXCEPT !.local_beta = orig_eval])
        ELSE IF orig_eval > st.local_beta
             THEN <<candidate, orig_eval>>
             ELSE main_opt_loop(w, b, is_white_move, depth, orig_depth,
                                [st2 EXCEPT !.local_alpha = orig_eval])

\* The loop body once the child is valued: child is <<new_move, orig_eval>>.
main_opt_child(w, b, is_white_move, depth, orig_depth, st, candidate, child) ==
    IF depth # 0 /\ child[1] = {}
    THEN main_opt_loop(w, b, is_white_move, depth, orig_depth, st)
    ELSE main_opt_update(w, b, is_white_move, depth, orig_depth, st, candidate,
                         main_compress(child[2]))

\* The loop body once apply_move_opt has answered.
main_opt_applied(w, b, is_white_move, depth, orig_depth, st, candidate, new_pos_opt) ==
    IF ~new_pos_opt.ok
    THEN main_opt_loop(w, b, is_white_move, depth, orig_depth, st)
    ELSE main_opt_child(w, b, is_white_move, depth, orig_depth, st, candidate,
             IF depth = 0
             THEN <<ALL_ONES, eval_position(new_pos_opt.white, new_pos_opt.black)>>
             ELSE main_search_moves_opt(new_pos_opt.white, new_pos_opt.black,
                                        ~is_white_move, depth - 1,
                                        st.local_alpha, st.local_beta,
                                        orig_depth))

\* The loop body for the candidate taken: the lowest bit of tmp.
main_opt_candidate(w, b, is_white_move, depth, orig_depth, st, candidate) ==
    main_opt_applied(w, b, is_white_move, depth, orig_depth,
                     [st EXCEPT !.tmp = @ \ candidate], candidate,
                     apply_move_opt(w, b, candidate, is_white_move))

\* The move loop of main.rs's search_moves_opt; st holds tmp, best_move,
\* best_eval, best_orig_eval, local_alpha, local_beta.
main_opt_loop(w, b, is_white_move, depth, orig_depth, st) ==
    IF st.tmp = {}
    THEN <<st.best_move, st.best_orig_eval>>
    ELSE main_opt_candidate(w, b, is_white_move, depth, orig_depth, st,
                            lowest_set_bit(st.tmp))

\* main.rs's search_moves_opt from its second line on.
main_opt_on_status(w, b, is_white_move, depth, alpha, beta, orig_depth, outcome) ==
    IF outcome = ALL_ONES_2 THEN <<ALL_ONES, -1000>>
    ELSE IF outcome = ALL_ONES_1 THEN <<ALL_ONES, 1000>>
    ELSE IF outcome = ALL_ONES_3 THEN <<ALL_ONES, 0>>
    ELSE IF outcome = ALL_ONES
    THEN main_search_moves_opt(w, b, ~is_white_move, depth, alpha, beta,
                               orig_depth)
    ELSE main_opt_loop(w, b, is_white_move, depth, orig_depth,
             [tmp |-> outcome,
              best_move |-> {},
              best_eval |-> I32_MIN,
              best_orig_eval |-> 0,
              local_alpha |-> alpha,
              local_beta |-> beta])

\* search_moves_opt of main.rs: <<move, eval>>
main_search_moves_opt(w, b, is_white_move, depth, alpha, beta, orig_depth) ==
    main_opt_on_status(w, b, is_white_move, depth, alpha, beta, orig_depth,
                       check_game_status_alt(w, b, is_white_move))

RECURSIVE main_search_moves_par(_, _, _, _, _, _, _)

\* The map closure of main.rs's search_moves_par once apply_move_opt has
\* answered: the set of the (candidate, eval, orig_eval) it can return.
main_par_applied(w, b, is_white_move, depth, alpha, beta, orig_depth, candidate, new_pos_opt) ==
    IF ~new_pos_opt.ok THEN {<<{}, 0, 0>>}
    ELSE IF depth = 0
    THEN {<<candidate, IF is_white_move THEN -r ELSE r, r>> :
             r \in {eval_position(new_pos_opt.white, new_pos_opt.black)}}
    ELSE IF orig_depth - depth > 0
    THEN {<<candidate, IF is_white_move THEN -r[2] ELSE r[2], r[2]>> :
             r \in {main_search_moves_opt(new_pos_opt.white, new_pos_opt.black,
                                          ~is_white_move, depth - 1, alpha,
                                          beta, orig_depth)}}
    ELSE {<<candidate,
            IF is_white_move THEN -main_compress(r[2]) ELSE main_compress(r[2]),
            main_compress(r[2])>> :
             r \in main_search_moves_par(new_pos_opt.white, new_pos_opt.black,
                                         ~is_white_move, depth - 1, alpha,
                                         beta, orig_depth)}

RECURSIVE main_par_map(_, _, _, _, _, _, _, _)
\* The mapped candidates, in the vector's order.
main_par_map(w, b, is_white_move, depth, alpha, beta, orig_depth, possible_moves) ==
    IF possible_moves = <<>> THEN <<>>
    ELSE <<main_par_applied(w, b, is_white_move, depth, alpha, beta,
                            orig_depth, Head(possible_moves),
                            apply_move_opt(w, b, Head(possible_moves),
                                           is_white_move))>>
         \o main_par_map(w, b, is_white_move, depth, alpha, beta, orig_depth,
                         Tail(possible_moves))

\* main.rs's search_moves_par from find_legal_moves_alt on.
main_par_on_moves(w, b, is_white_move, depth, alpha, beta, orig_depth, outcome, possible_moves) ==
    IF Len(possible_moves) = 0 /\ outcome = 3
    THEN IF depth = orig_depth
         THEN {<<ALL_ONES, eval_position(w, b)>>}
         ELSE IF depth > 0
         THEN {main_search_moves_opt(w, b, ~is_white_move, depth - 1, alpha,
                                     beta, orig_depth)}
         ELSE {main_search_moves_opt(w, b, ~is_white_move, depth, alpha,
                                     beta, orig_depth)}
    ELSE {<<t[1], t[3]>> :
             t \in par_reduce(main_par_map(w, b, is_white_move, depth, alpha,
                                           beta, orig_depth, possible_moves))}

\* main.rs's search_moves_par from its second line on.
main_par_on_status(w, b, is_white_move, depth, alpha, beta, orig_depth, outcome) ==
    IF outcome = 1 THEN {<<ALL_ONES, -1000>>}
    ELSE IF outcome = 2 THEN {<<ALL_ONES, 1000>>}
    ELSE IF outcome = 0 THEN {<<ALL_ONES, 0>>}
    ELSE main_par_on_moves(w, b, is_white_move, depth, alpha, beta, orig_depth,
                           outcome, find_legal_moves_alt(w, b, is_white_move))

\* search_moves_par of main.rs: the set of the <<move, eval>> it can return
main_search_moves_par(w, b, is_white_move, depth, alpha, beta, orig_depth) ==
    main_par_on_status(w, b, is_white_move, depth, alpha, beta, orig_depth,
                       check_game_status(w, b))

\* ------------------------------------------------------------ opening book

\* The loop of rotate90: bit row * 8 + col goes to col * 8 + (7 - row).
rotate90(b) == {(i % 8) * 8 + (7 - (i \div 8)) : i \in b}

\* u8 shifts: a byte is a subset of 0..7 and the bits that leave it are lost.
Shl8(b, n) == {i + n : i \in {j \in b : j + n <= 7}}
Shr8(b, n) == {i - n : i \in {j \in b : j - n >= 0}}

\* reverse_byte without its last line: the pairs of bits are reversed, the
\* two bits of a pair are not swapped.
reverse_byte_pairs(b) ==
    LET b1 == Shl8(b, 4) \cup Shr8(b, 4)
    IN  Shr8(b1 \cap {2, 3, 6, 7}, 2) \cup Shl8(b1 \cap {0, 1, 4, 5}, 2)

reverse_byte(b) ==
    LET b1 == Shl8(b, 4) \cup Shr8(b, 4)
        \* 0xCC, 0x33
        b2 == Shr8(b1 \cap {2, 3, 6, 7}, 2) \cup Shl8(b1 \cap {0, 1, 4, 5}, 2)
        \* 0xAA, 0x55
        b3 == Shr8(b2 \cap {1, 3, 5, 7}, 1) \cup Shl8(b2 \cap {0, 2, 4, 6}, 1)
    IN  b3

\* (x >> (8 * row)) & 0xFF
row_bits(x, row) == Shr(x, 8 * row) \cap (0..7)

flip_vertical(x) ==
    UNION {Shl(row_bits(x, row), 8 * (7 - row)) : row \in 0..7}

flip_horizontal(x) ==
    UNION {Shl(reverse_byte(row_bits(x, row)), 8 * row) : row \in 0..7}

rotate_position_90(pos) ==
    [black |-> rotate90(pos.black), white |-> rotate90(pos.white),
     white_to_move |-> pos.white_to_move]

flip_position_vertical(pos) ==
    [black |-> flip_vertical(pos.black), white |-> flip_vertical(pos.white),
     white_to_move |-> pos.white_to_move]

flip_position_horizontal(pos) ==
    [black |-> flip_horizontal(pos.black), white |-> flip_horizontal(pos.white),
     white_to_move |-> pos.white_to_move]

rotate_move_90(m) == rotate90(m)
flip_move_vertical(m) == flip_vertical(m)
flip_move_horizontal(m) == flip_horizontal(m)

\* suggested_moves.contains(&move_mask)
contains(moves, move_mask) == \E i \in DOMAIN moves : moves[i] = move_mask

\* insert_position that pushes the move whether the entry holds it or not
insert_position_always_push(entries, pos, move_mask) ==
    IF pos \in DOMAIN entries
    THEN [entries EXCEPT ![pos] = Append(@, move_mask)]
    ELSE entries @@ (pos :> <<move_mask>>)

\* OpeningBook::insert_position on the map entries.
insert_position(entries, pos, move_mask) ==
    IF pos \in DOMAIN entries
    THEN IF ~contains(entries[pos], move_mask)
         THEN [entries EXCEPT ![pos] = Append(@, move_mask)]
         ELSE entries
    ELSE entries @@ (pos :> <<move_mask>>)

\* OpeningBook::get: Some(entry) or None.
get(entries, pos) ==
    IF pos \in DOMAIN entries
    THEN [some |-> TRUE, suggested_moves |-> entries[pos]]
    ELSE [some |-> FALSE, suggested_moves |-> <<>>]

RECURSIVE rotations_loop(_, _, _, _)
\* The for loop of insert_all_rotations with n rounds left.
rotations_loop(entries, p, m, n) ==
    IF n = 0 THEN entries
    ELSE LET e1 == insert_position(entries, p, m)
             p1 == rotate_position_90(p)
             m1 == rotate_move_90(m)
             e2 == insert_position(e1, flip_position_vertical(p1),
                                   flip_move_vertical(m1))
             e3 == insert_position(e2, flip_position_horizontal(p1),
                                   flip_move_horizontal(m1))
         IN  rotations_loop(e3, p1, m1, n - 1)

RECURSIVE rotation_calls(_, _, _)
\* The insert_position calls the for loop of insert_all_rotations makes with
\* n rounds left, in order, as (position, move) pairs.
rotation_calls(p, m, n) ==
    IF n = 0 THEN <<>>
    ELSE << <<p, m>>,
            <<flip_position_vertical(rotate_position_90(p)),
              flip_move_vertical(rotate_move_90(m))>>,
            <<flip_position_horizontal(rotate_position_90(p)),
              flip_move_horizontal(rotate_move_90(m))>> >>
         \o rotation_calls(rotate_position_90(p), rotate_move_90(m), n - 1)

\* insert_all_rotations with the position not turned between the rounds.
insert_all_rotations_unturned(entries, pos, move_mask) ==
    LET e1 == insert_position(entries, pos, move_mask)
        e2 == insert_position(e1, flip_position_vertical(pos),
                              flip_move_vertical(move_mask))
    IN  insert_position(e2, flip_position_horizontal(pos),
                        flip_move_horizontal(move_mask))

insert_all_rotations(entries, pos, move_mask) ==
    rotations_loop(entries, pos, move_mask, 4)

\* ------------------------------------------------- opening book generation

RECURSIVE gen_children(_, _)
\* "for next_move in next_moves": the positions pushed, one for every move
\* apply_move_opt accepts.
gen_children(pos, next_moves) ==
    IF next_moves = <<>> THEN <<>>
    ELSE (IF apply_move_opt(pos.white, pos.black, Head(next_moves),
                            pos.white_to_move).ok
          THEN <<[black |-> apply_move_opt(pos.white, pos.black, Head(next_moves),
                                           pos.white_to_move).black,
                  white |-> apply_move_opt(pos.white, pos.black, Head(next_moves),
                                           pos.white_to_move).white,
                  white_to_move |-> ~pos.white_to_move]>>
          ELSE <<>>)
         \o gen_children(pos, Tail(next_moves))

\* What one position of the queue adds to next_queue.  searched tells that
\* the position was absent from the book and best_move was computed for it.
gen_pushes(pos, searched, best_move, depth, full_depth) ==
    IF depth >= full_depth
    THEN IF searched THEN gen_children(pos, <<best_move>>) ELSE <<>>
    ELSE gen_children(pos, find_legal_moves_alt(pos.white, pos.black,
                                                pos.white_to_move))

\* The body of "for pos in queue" storing best_move for pos alone
gen_position_one_insert(entries, next_queue, pos, best_move, depth, full_depth) ==
    IF get(entries, pos).some
    THEN [book |-> entries,
          next_queue |-> next_queue
                         \o gen_pushes(pos, FALSE, best_move, depth, full_depth)]
    ELSE [book |-> insert_position(entries, pos, best_move),
          next_queue |-> next_queue
                         \o gen_pushes(pos, TRUE, best_move, depth, full_depth)]

\* The body of "for pos in queue" of generate_opening_book, best_move being
\* what search_moves_par returned if it was called: the book and next_queue
\* after it.
gen_position(entries, next_queue, pos, best_move, depth, full_depth) ==
    IF get(entries, pos).some
    THEN [book |-> entries,
          next_queue |-> next_queue
                         \o gen_pushes(pos, FALSE, best_move, depth, full_depth)]
    ELSE [book |-> insert_all_rotations(entries, pos, best_move),
          next_queue |-> next_queue
                         \o gen_pushes(pos, TRUE, best_move, depth, full_depth)]

\* ------------------------------------------------------------------- state

VARIABLES
    white, black, white_to_move,  \* the position
    ply,                          \* moves applied since Init
    start,                        \* the position of Init
    hash,                         \* the Zobrist hash, updated move by move
    ret,                          \* the last call: its arguments and result
    book,                         \* OpeningBook.entries: Position -> suggested_moves
    tt,                           \* the TranspositionTable: entries and size
    calls,                        \* the calls made on tt or on book, in order
    gen                           \* generate_opening_book: its arguments and locals

vars == <<white, black, white_to_move, ply, start, hash, ret, book, tt, calls, gen>>

\* generate_opening_book is not running.
NoGen == [pc |-> "idle"]

NoRet == [op |-> "none"]

Init ==
    /\ \E s \in SeedBoards : white = s.white /\ black = s.black
    /\ white_to_move \in BOOLEAN
    /\ ply = 0
    /\ start = [white |-> white, black |-> black, white_to_move |-> white_to_move]
    /\ hash = compute_zobrist_hash([white |-> white, black |-> black])
    /\ ret = NoRet
    /\ book = <<>>
    /\ tt = TranspositionTable_default
    /\ calls = <<>>
    /\ gen = NoGen

\* The walk goes on from a position: no call has failed or returned a value
\* on it.
Playing == ret.op \in {"none", "apply_ok", "pass", "insert_all_rotations"}

\* One candidate of the move loop: apply_move_opt on the current position.
\* Ok((w, b)) makes (w, b) the next position with the other side to move;
\* Err(_) skips the candidate and the position stays.  The hash follows the
\* move through update_zobrist_hash, given the move's square, the mover and
\* the mask of the discs that changed colour.
ApplyMove(m) ==
    /\ Playing
    /\ ply < MaxPly
    /\ LET r == apply_move_opt(white, black, {m}, white_to_move)
           opp == IF white_to_move THEN black ELSE white
           new_opp == IF white_to_move THEN r.black ELSE r.white
       IN  IF r.ok
           THEN /\ white' = r.white
                /\ black' = r.black
                /\ white_to_move' = ~white_to_move
                /\ ply' = ply + 1
                /\ hash' = update_zobrist_hash(
                               [white_to_move |-> white_to_move, last_move |-> {m},
                                flips |-> opp \ new_opp], hash)
                /\ ret' = [op |-> "apply_ok", move |-> m, white |-> white,
                           black |-> black, is_white_move |-> white_to_move]
           ELSE /\ ret' = [op |-> "apply_err", move |-> m, err |-> r.err,
                           white |-> white, black |-> black,
                           is_white_move |-> white_to_move]
                /\ UNCHANGED <<white, black, white_to_move, ply, hash>>
    /\ UNCHANGED <<start, book, tt, calls, gen>>

\* The pass branch: the status is u64::MAX, the same board goes on with the
\* side flipped.
Pass ==
    /\ Playing
    /\ check_game_status_alt(white, black, white_to_move) = ALL_ONES
    /\ white_to_move' = ~white_to_move
    /\ ret' = [op |-> "pass", is_white_move |-> white_to_move]
    /\ UNCHANGED <<white, black, ply, start, hash, book, tt, calls, gen>>

\* compute_moves for the side to move.
ComputeMoves ==
    /\ Playing
    /\ LET me == IF white_to_move THEN white ELSE black
           opp == IF white_to_move THEN black ELSE white
       IN  ret' = [op |-> "compute_moves", me |-> me, opp |-> opp,
                   moves |-> compute_moves(me, opp)]
    /\ UNCHANGED <<white, black, white_to_move, ply, start, hash, book, tt, calls, gen>>

\* check_game_status_alt on the current position.
CheckStatus ==
    /\ Playing
    /\ ret' = [op |-> "status", white |-> white, black |-> black,
               is_white_move |-> white_to_move,
               outcome |-> check_game_status_alt(white, black, white_to_move)]
    /\ UNCHANGED <<white, black, white_to_move, ply, start, hash, book, tt, calls, gen>>

Next ==
    \/ \E m \in Bits : ApplyMove(m)
    \/ Pass
    \/ ComputeMoves
    \/ CheckStatus

Spec == Init /\ [][Next]_vars

\* ------------------------------------------------------- the search, driven

\* The search horizon: a search of depth d is run on a position ply moves
\* into the game when ply + d <= MaxDepth.
MaxDepth == 3

Horizon(depth) == ply + depth <= MaxDepth

\* The (alpha, beta) pairs the searches are called with: the full window and
\* a narrow one.
Windows == {<<-20000, 20000>>, <<-10, 10>>}

\* The searches start from the opening and endgame positions of SeedBoards
\* and from scenario 4: white has 63 discs, black has 1.
SearchSeeds ==
    {pos \in SeedBoards : pos.white # U64(\H0000, \H2010, \H1017, \H0000)}
    \cup {[white |-> Bits \ {0}, black |-> {0}]}

SearchInit ==
    /\ \E s \in SearchSeeds : white = s.white /\ black = s.black
    /\ white_to_move \in BOOLEAN
    /\ ply = 0
    /\ start = [white |-> white, black |-> black, white_to_move |-> white_to_move]
    /\ hash = compute_zobrist_hash([white |-> white, black |-> black])
    /\ ret = NoRet
    /\ book = <<>>
    /\ tt = TranspositionTable_default
    /\ calls = <<>>
    /\ gen = NoGen

\* search_moves_par(white, black, white_to_move, depth, alpha, beta, depth,
\* DEFAULT_CFG) called on the current position.
SearchPar(depth, window) ==
    /\ Playing
    /\ Horizon(depth)
    /\ ret' = [op |-> "search_par", depth |-> depth, alpha |-> window[1],
               beta |-> window[2],
               results |-> search_moves_par(white, black, white_to_move, depth,
                               window[1], window[2], depth, DEFAULT_CFG)]
    /\ UNCHANGED <<white, black, white_to_move, ply, start, hash, book, tt, calls, gen>>

\* search_moves_opt called on the current position.
SearchOpt(depth, window) ==
    /\ Playing
    /\ Horizon(depth)
    /\ ret' = [op |-> "search_opt", depth |-> depth, alpha |-> window[1],
               beta |-> window[2],
               result |-> search_moves_opt(white, black, white_to_move, depth,
                              window[1], window[2], depth, DEFAULT_CFG)]
    /\ UNCHANGED <<white, black, white_to_move, ply, start, hash, book, tt, calls, gen>>

\* The engine's move: the move search_moves_par returns with the full window
\* is played on the board.
SearchStep(depth) ==
    /\ Playing
    /\ Horizon(depth)
    /\ \E r \in search_moves_par(white, black, white_to_move, depth, -20000,
                                  20000, depth, DEFAULT_CFG) :
          \E m \in Bits : r[1] = {m} /\ ApplyMove(m)

SearchNext ==
    \/ \E depth \in 1..MaxDepth : SearchStep(depth)
    \/ Pass
    \/ \E depth \in 0..MaxDepth, window \in Windows : SearchPar(depth, window)
    \/ \E depth \in 0..MaxDepth, window \in Windows : SearchOpt(depth, window)

SpecSearch == SearchInit /\ [][SearchNext]_vars

\* ------------------------------------------------- the opening book, driven

\* Positions given to the book in one behaviour.
MaxInserts == 2

\* The move generate_opening_book stores for the position: a legal move, or
\* the u64::MAX the search returns when the mover has none.
BookMoves ==
    IF compute_moves(IF white_to_move THEN white ELSE black,
                     IF white_to_move THEN black ELSE white) = {}
    THEN {ALL_ONES}
    ELSE {{s} : s \in compute_moves(IF white_to_move THEN white ELSE black,
                                    IF white_to_move THEN black ELSE white)}

\* book.insert_all_rotations(pos, move_mask) for the position on the board.
InsertAllRotations(move_mask) ==
    /\ Playing
    /\ ret.op # "insert_all_rotations"
    /\ ply < MaxInserts
    /\ LET pos == [black |-> black, white |-> white,
                   white_to_move |-> white_to_move]
       IN  /\ book' = insert_all_rotations(book, pos, move_mask)
           /\ ret' = [op |-> "insert_all_rotations", pos |-> pos,
                      move |-> move_mask]
    /\ UNCHANGED <<white, black, white_to_move, ply, start, hash, tt, calls, gen>>

\* A position whose move has been stored is followed by the positions its
\* legal moves lead to.
BookStep(m) ==
    /\ ret.op = "insert_all_rotations"
    /\ {m} \in BookMoves
    /\ ApplyMove(m)

\* generate_opening_book: the standard start with black to move and an empty
\* book.
BookInit ==
    /\ white = StartWhite
    /\ black = StartBlack
    /\ white_to_move = FALSE
    /\ ply = 0
    /\ start = [white |-> white, black |-> black, white_to_move |-> white_to_move]
    /\ hash = compute_zobrist_hash([white |-> white, black |-> black])
    /\ ret = NoRet
    /\ book = <<>>
    /\ tt = TranspositionTable_default
    /\ calls = <<>>
    /\ gen = NoGen

BookNext ==
    \/ \E move_mask \in BookMoves : InsertAllRotations(move_mask)
    \/ \E m \in Bits : BookStep(m)

SpecBook == BookInit /\ [][BookNext]_vars



\* ------------------------------------------------ the book's calls, driven

\* The positions given to the book: the standard start with black and with
\* white to move, and the start after black's d3.
BookPositions ==
    { [black |-> StartBlack, white |-> StartWhite, white_to_move |-> FALSE],
      [black |-> StartBlack, white |-> StartWhite, white_to_move |-> TRUE],
      [black |-> apply_move_opt(StartWhite, StartBlack, {19}, FALSE).black,
       white |-> apply_move_opt(StartWhite, StartBlack, {19}, FALSE).white,
       white_to_move |-> TRUE] }

\* The moves given to the book: d3 and c4.
BookMasks == {{19}, {26}}

\* book.insert_position(pos, move_mask)
BookInsertPosition(pos, move_mask) ==
    /\ Len(calls) < MaxInserts
    /\ book' = insert_position(book, pos, move_mask)
    /\ calls' = Append(calls, [op |-> "insert_position", pos |-> pos,
                               move |-> move_mask])
    /\ ret' = [op |-> "book_insert_position", pos |-> pos, move |-> move_mask,
               before |-> book]
    /\ UNCHANGED <<white, black, white_to_move, ply, start, hash, tt, gen>>

\* book.insert_all_rotations(pos, move_mask)
BookInsertAllRotations(pos, move_mask) ==
    /\ Len(calls) < MaxInserts
    /\ book' = insert_all_rotations(book, pos, move_mask)
    /\ calls' = Append(calls, [op |-> "insert_all_rotations", pos |-> pos,
                               move |-> move_mask])
    /\ ret' = [op |-> "book_insert_all_rotations", pos |-> pos,
               move |-> move_mask, before |-> book]
    /\ UNCHANGED <<white, black, white_to_move, ply, start, hash, tt, gen>>

BookCallsNext ==
    \/ \E pos \in BookPositions, move_mask \in BookMasks :
          BookInsertPosition(pos, move_mask)
    \/ \E pos \in BookPositions, move_mask \in BookMasks :
          BookInsertAllRotations(pos, move_mask)

SpecBookCalls == BookInit /\ [][BookCallsNext]_vars

\* ---------------------------------------- the book's generation, driven

\* The largest partial_depth and full_depth generate_opening_book is run
\* with.
MaxPartialDepth == 2

\* The calculation_depth values it is run with.
CalcDepths == 1..3

\* The partial_depth of the runs that follow the main line alone
\* (full_depth = 0) to the end of the game.
MaxLine == 61

\* generate_opening_book(calculation_depth, full_depth, partial_depth, path)
\* up to its for loop: the book is the one of path, the queue holds the
\* starting position.
GenStart(calculation_depth, full_depth, partial_depth) ==
    /\ gen.pc = "idle"
    /\ gen' = [pc |-> "loop", calculation_depth |-> calculation_depth,
               full_depth |-> full_depth, partial_depth |-> partial_depth,
               depth |-> 0,
               queue |-> <<[black |-> StartBlack, white |-> StartWhite,
                            white_to_move |-> FALSE]>>,
               next_queue |-> <<>>,
               positions |-> 0,
               saves |-> 0]
    /\ UNCHANGED <<white, black, white_to_move, ply, start, hash, ret, book, tt, calls>>

\* One round of "for pos in queue".  positions counts the rounds and saves
\* the book.save_to_file(save_path) calls: the one that ends the body is
\* reached when depth < full_depth, both "continue" leave the body before it.
GenPosition ==
    /\ gen.pc = "loop"
    /\ gen.depth < gen.partial_depth
    /\ gen.queue # <<>>
    /\ \E r \in (IF get(book, Head(gen.queue)).some
                 THEN {<<{}, 0>>}
                 ELSE main_search_moves_par(Head(gen.queue).white,
                          Head(gen.queue).black, Head(gen.queue).white_to_move,
                          gen.calculation_depth, -2000, 2000,
                          gen.calculation_depth)) :
          \E after \in {gen_position(book, gen.next_queue, Head(gen.queue),
                                     r[1], gen.depth, gen.full_depth)} :
              /\ book' = after.book
              /\ gen' = [gen EXCEPT !.queue = Tail(@),
                                    !.next_queue = after.next_queue,
                                    !.positions = @ + 1,
                                    !.saves = IF gen.depth >= gen.full_depth
                                              THEN @ ELSE @ + 1]
    /\ UNCHANGED <<white, black, white_to_move, ply, start, hash, ret, tt, calls>>

\* The end of one round of "for depth in 0..partial_depth".
GenNextDepth ==
    /\ gen.pc = "loop"
    /\ gen.depth < gen.partial_depth
    /\ gen.queue = <<>>
    /\ gen' = [gen EXCEPT !.queue = gen.next_queue, !.next_queue = <<>>,
                          !.depth = @ + 1]
    /\ UNCHANGED <<white, black, white_to_move, ply, start, hash, ret, book, tt, calls>>

\* The for loop is over: the book is saved and the function returns.
GenFinish ==
    /\ gen.pc = "loop"
    /\ gen.depth = gen.partial_depth
    /\ gen' = [gen EXCEPT !.pc = "done", !.saves = @ + 1]
    /\ ret' = [op |-> "generate_opening_book",
               calculation_depth |-> gen.calculation_depth,
               full_depth |-> gen.full_depth,
               partial_depth |-> gen.partial_depth]
    /\ UNCHANGED <<white, black, white_to_move, ply, start, hash, book, tt, calls>>

GenNext ==
    \/ \E calculation_depth \in CalcDepths, full_depth \in 0..MaxPartialDepth,
          partial_depth \in 0..MaxPartialDepth :
          GenStart(calculation_depth, full_depth, partial_depth)
    \/ GenStart(1, 0, MaxLine)
    \/ GenPosition
    \/ GenNextDepth
    \/ GenFinish

SpecGen == BookInit /\ [][GenNext]_vars

\* ------------------------------------------------- the move loop, one round

\* The walk of SpecSymmetry is MaxSymmetryPly moves long.
MaxSymmetryPly == 2

\* One candidate of the move loop on a position at most MaxSymmetryPly
\* moves from the one of Init.
SymmetryMove(m) ==
    /\ ply < MaxSymmetryPly
    /\ ApplyMove(m)

SymmetryNext == \E m \in Bits : SymmetryMove(m)

SpecSymmetry == Init /\ [][SymmetryNext]_vars

\* ------------------------------------------------------ local_game, driven

\* local_game is run with search_depth in 1..MaxSearchDepth.
MaxSearchDepth == 2

\* The depth local_game hands to the search: search_depth, or the number of
\* empty squares when that is not larger.
local_game_depth(w, b, default_depth) ==
    IF 64 - count_ones(w \cup b) > default_depth
    THEN default_depth
    ELSE 64 - count_ones(w \cup b)

\* The loop body with a PASS that leaves the side to move as it was.
local_game_iteration_same_side(w, b, is_white_move, nxt_move, applied) ==
    IF nxt_move = {}
    THEN [pc |-> "break", line |-> "NO MOVES!", white |-> w, black |-> b,
          white_to_move |-> is_white_move]
    ELSE IF nxt_move = ALL_ONES
    THEN [pc |-> "loop", line |-> "PASS", white |-> w, black |-> b,
          white_to_move |-> is_white_move]
    ELSE IF ~applied.ok
    THEN [pc |-> "panic", line |-> applied.err, white |-> w, black |-> b,
          white_to_move |-> is_white_move]
    ELSE IF check_game_status(applied.white, applied.black) = 3
    THEN [pc |-> "loop", line |-> "Ply", white |-> applied.white,
          black |-> applied.black, white_to_move |-> ~is_white_move]
    ELSE [pc |-> "break", line |-> "score", white |-> w, black |-> b,
          white_to_move |-> is_white_move]

\* The body of local_game's loop from the answer of the search on: applied
\* is apply_move(white, black, nxt_move, white_to_move).  pc is where the
\* program goes ("panic": unwrap on an Err), line is what it prints, the
\* rest are the loop's variables after the body.
local_game_iteration(w, b, is_white_move, nxt_move, applied) ==
    IF nxt_move = {}
    THEN [pc |-> "break", line |-> "NO MOVES!", white |-> w, black |-> b,
          white_to_move |-> is_white_move]
    ELSE IF nxt_move = ALL_ONES
    THEN [pc |-> "loop", line |-> "PASS", white |-> w, black |-> b,
          white_to_move |-> ~is_white_move]
    ELSE IF ~applied.ok
    THEN [pc |-> "panic", line |-> applied.err, white |-> w, black |-> b,
          white_to_move |-> is_white_move]
    ELSE IF check_game_status(applied.white, applied.black) = 3
    THEN [pc |-> "loop", line |-> "Ply", white |-> applied.white,
          black |-> applied.black, white_to_move |-> ~is_white_move]
    ELSE [pc |-> "break", line |-> "score", white |-> w, black |-> b,
          white_to_move |-> is_white_move]

\* local_game(args) up to its loop: the standard position, black to move,
\* the book of args.book_path (none: the empty book), ply = 0.
LocalGameInit ==
    /\ white = StartWhite
    /\ black = StartBlack
    /\ white_to_move = FALSE
    /\ ply = 0
    /\ start = [white |-> white, black |-> black, white_to_move |-> white_to_move]
    /\ hash = compute_zobrist_hash([white |-> white, black |-> black])
    /\ \E search_depth \in 1..MaxSearchDepth :
          ret = [op |-> "local_game", pc |-> "loop", line |-> "",
                 default_depth |-> search_depth, depth |-> 0, nxt_move |-> {},
                 white |-> white, black |-> black,
                 is_white_move |-> white_to_move,
                 new_white |-> white, new_black |-> black]
    /\ book = <<>>
    /\ tt = TranspositionTable_default
    /\ calls = <<>>
    /\ gen = NoGen

\* One round of local_game's loop: the book is asked for black, the search
\* otherwise; ret keeps the position and the depth the round started with,
\* the move it got and the board apply_move made of it.
LocalGameIteration ==
    /\ ret.op = "local_game"
    /\ ret.pc = "loop"
    /\ \E depth \in {local_game_depth(white, black, ret.default_depth)} :
       \E r \in (IF ~white_to_move
                    /\ get(book, [black |-> black, white |-> white,
                                  white_to_move |-> white_to_move]).some
                 THEN {<<Head(get(book, [black |-> black, white |-> white,
                                         white_to_move |-> white_to_move])
                                 .suggested_moves), 0>>}
                 ELSE main_search_moves_par(white, black, white_to_move, depth,
                                            -2000, 2000, depth)) :
       \E applied \in {IF r[1] \in {{}, ALL_ONES}
                       THEN [ok |-> FALSE, err |-> "", white |-> white,
                             black |-> black]
                       ELSE apply_move(white, black, r[1], white_to_move)} :
       \E after \in {local_game_iteration(white, black, white_to_move, r[1],
                                          applied)} :
          /\ white' = after.white
          /\ black' = after.black
          /\ white_to_move' = after.white_to_move
          /\ ply' = ply + 1
          /\ ret' = [ret EXCEPT !.pc = after.pc, !.line = after.line,
                                !.depth = depth, !.nxt_move = r[1],
                                !.white = white, !.black = black,
                                !.is_white_move = white_to_move,
                                !.new_white = applied.white,
                                !.new_black = applied.black]
    /\ UNCHANGED <<start, hash, book, tt, calls, gen>>

SpecLocalGame == LocalGameInit /\ [][LocalGameIteration]_vars

\* ---------------------------------------------------- the evaluator, driven

\* The weight sets the evaluator is called with: the engine's, the weights
\* of eval_position, all zero, and four different ones.
EvalCfgs ==
    { DEFAULT_CFG,
      [corner_value |-> 10, edge_value |-> 5, antiedge_value |-> 0,
       anticorner_value |-> 0],
      [corner_value |-> 0, edge_value |-> 0, antiedge_value |-> 0,
       anticorner_value |-> 0],
      [corner_value |-> 1000, edge_value |-> -100, antiedge_value |-> 10,
       anticorner_value |-> -1] }

\* A legal move of the side to move is played.
EvalStep ==
    /\ Playing
    /\ \E m \in compute_moves(IF white_to_move THEN white ELSE black,
                               IF white_to_move THEN black ELSE white) :
          ApplyMove(m)

\* eval_position_with_cfg and eval_position on the current position.
EvalPosition(eval_cfg) ==
    /\ Playing
    /\ ret' = [op |-> "eval", white |-> white, black |-> black,
               cfg |-> eval_cfg,
               value |-> eval_position_with_cfg(white, black, eval_cfg),
               legacy |-> eval_position(white, black)]
    /\ UNCHANGED <<white, black, white_to_move, ply, start, hash, book, tt, calls, gen>>

EvalNext ==
    \/ EvalStep
    \/ Pass
    \/ \E eval_cfg \in EvalCfgs : EvalPosition(eval_cfg)

SpecEval == Init /\ [][EvalNext]_vars

\* ------------------------------------------- the three apply_move, driven

\* apply_move_opt, apply_move and apply_move_verbose called with the same
\* arguments on the current position.
ApplyAll(m) ==
    /\ Playing
    /\ ret' = [op |-> "apply_all", move |-> m, white |-> white,
               black |-> black, is_white_move |-> white_to_move,
               opt |-> apply_move_opt(white, black, {m}, white_to_move),
               scan |-> apply_move(white, black, {m}, white_to_move),
               verbose |-> apply_move_verbose(white, black, {m}, white_to_move)]
    /\ UNCHANGED <<white, black, white_to_move, ply, start, hash, book, tt, calls, gen>>

\* A legal move is played while a search of depth 2 is within the horizon.
ApplyStep ==
    /\ Horizon(2)
    /\ EvalStep

ApplyNext ==
    \/ ApplyStep
    \/ Pass
    \/ \E m \in Bits : ApplyAll(m)

SpecApply == Init /\ [][ApplyNext]_vars

\* ------------------------------------------ the full-window search, driven

\* The weight sets searched with: the engine's, and all zero (the disc
\* difference, which makes equal evaluations frequent).
SearchCfgs ==
    { DEFAULT_CFG,
      [corner_value |-> 0, edge_value |-> 0, antiedge_value |-> 0,
       anticorner_value |-> 0] }

\* search_moves_opt called on the current position with the window
\* (-20000, 20000), one ply short of the horizon.
SearchOptFull(depth, cfg) ==
    /\ Playing
    /\ Horizon(depth + 1)
    /\ ret' = [op |-> "search_opt_full", depth |-> depth, cfg |-> cfg,
               result |-> search_moves_opt(white, black, white_to_move, depth,
                              -20000, 20000, depth, cfg)]
    /\ UNCHANGED <<white, black, white_to_move, ply, start, hash, book, tt, calls, gen>>

\* search_moves_par called on the current position with the same window.
SearchParFull(depth) ==
    /\ Playing
    /\ Horizon(depth + 1)
    /\ ret' = [op |-> "search_par_full", depth |-> depth, cfg |-> DEFAULT_CFG,
               results |-> search_moves_par(white, black, white_to_move, depth,
                               -20000, 20000, depth, DEFAULT_CFG)]
    /\ UNCHANGED <<white, black, white_to_move, ply, start, hash, book, tt, calls, gen>>

FullNext ==
    \/ ApplyStep
    \/ Pass
    \/ \E depth \in 0..MaxDepth, cfg \in SearchCfgs : SearchOptFull(depth, cfg)
    \/ \E depth \in 0..MaxDepth : SearchParFull(depth)

SpecFull == SearchInit /\ [][FullNext]_vars

\* ------------------------------------------- the transposition table, driven

\* The largest table has 2^MaxSize slots.
MaxSize == 1

\* insert_position calls made on one table.
MaxCalls == 2

\* The hashes given to the table: every slot of the largest table is hit,
\* and hash 2^MaxSize shares slot 0 with hash 0.
Hashes == 0..Pow2(MaxSize)

\* The (eval, mv) stored by the call made after n others: the move tells the
\* calls apart.
Payload(n) == <<5, n + 1>>

\* The (alpha, beta) pairs probed with: the stored value lies on beta and
\* above alpha, or on alpha and below beta.
ProbeWindows == {<<4, 5>>, <<5, 6>>}

\* let mut tt = TranspositionTable::new(size)
TTInit ==
    /\ \E size \in 0..MaxSize : tt = new(size)
    /\ calls = <<>>
    /\ gen = NoGen
    /\ white = StartWhite
    /\ black = StartBlack
    /\ white_to_move = FALSE
    /\ ply = 0
    /\ start = [white |-> white, black |-> black, white_to_move |-> white_to_move]
    /\ hash = compute_zobrist_hash([white |-> white, black |-> black])
    /\ ret = NoRet
    /\ book = <<>>

\* tt.insert_position(hash, eval, kind, mv)
TTInsert(h, kind) ==
    /\ Len(calls) < MaxCalls
    /\ tt' = tt_insert_position(tt, h, Payload(Len(calls))[1], kind,
                                Payload(Len(calls))[2])
    /\ calls' = Append(calls, [key |-> h, flag |-> kind,
                               value |-> Payload(Len(calls))[1],
                               best_move |-> Payload(Len(calls))[2]])
    /\ ret' = [op |-> "tt_insert", hash |-> h,
               index |-> find_index(h, tt.size), before |-> tt]
    /\ UNCHANGED <<white, black, white_to_move, ply, start, hash, book, gen>>

\* tt.probe(hash, alpha, beta)
TTProbe(h, window) ==
    /\ ret' = [op |-> "probe", hash |-> h, alpha |-> window[1],
               beta |-> window[2], index |-> find_index(h, tt.size),
               before |-> tt,
               result |-> probe(tt, h, window[1], window[2])]
    /\ UNCHANGED <<white, black, white_to_move, ply, start, hash, book, tt, calls, gen>>

TTNext ==
    \/ \E h \in Hashes, kind \in TTFlag : TTInsert(h, kind)
    \/ \E h \in Hashes, window \in ProbeWindows : TTProbe(h, window)

SpecTT == TTInit /\ [][TTNext]_vars

\* ------------------------------------------------- the rules, by coordinates

\* The rules of the game stated on (file, rank) coordinates, with no shift
\* and no mask: what the bitboard code is compared with.
File(i) == i % 8
Rank(i) == i \div 8
Steps == {<<-1, -1>>, <<-1, 0>>, <<-1, 1>>, <<0, -1>>, <<0, 1>>, <<1, -1>>, <<1, 0>>, <<1, 1>>}
OnBoard(s, st, j) ==
    /\ File(s) + j * st[1] \in 0..7
    /\ Rank(s) + j * st[2] \in 0..7
Square(s, st, j) == 8 * (Rank(s) + j * st[2]) + File(s) + j * st[1]

RECURSIVE RunLength(_, _, _, _)
\* The number of consecutive opponent discs met from s in direction st,
\* counted from the j-th square on.
RunLength(s, st, j, opp) ==
    IF OnBoard(s, st, j) /\ Square(s, st, j) \in opp
    THEN 1 + RunLength(s, st, j + 1, opp)
    ELSE 0

\* From s in direction st: k opponent discs, k >= 1, then a disc of the
\* mover, all on the board.
Brackets(s, st, k, me, opp) ==
    /\ k >= 1
    /\ k = RunLength(s, st, 1, opp)
    /\ OnBoard(s, st, k + 1)
    /\ Square(s, st, k + 1) \in me

\* The run of opponent discs from s in direction st that a mover disc ends,
\* {} when there is none.
BracketedRun(s, st, me, opp) ==
    LET k == RunLength(s, st, 1, opp)
    IN  IF Brackets(s, st, k, me, opp)
        THEN {Square(s, st, j) : j \in 1..k}
        ELSE {}

LegalSquares(me, opp) ==
    {s \in Bits \ (me \cup opp) :
        \E st \in Steps : BracketedRun(s, st, me, opp) # {}}

FlippedBy(s, me, opp) == UNION {BracketedRun(s, st, me, opp) : st \in Steps}

StandardStart == start.white = StartWhite /\ start.black = StartBlack

\* ------------------------------------------------------------------ claims

\* C1: compute_moves(me, opp) is exactly the set of empty squares from which,
\* in one of the eight directions and without wrapping over the a/h files, a
\* non-empty run of opp discs is followed by a me disc; it never meets
\* me | opp; the standard opening gives d3,c4,f5,e6 to black and e3,f4,c5,d6
\* to white.
C1_ComputeMovesExact ==
    ret.op = "compute_moves" =>
        /\ ret.moves = LegalSquares(ret.me, ret.opp)
        /\ ret.moves \cap (ret.me \cup ret.opp) = {}
        /\ (ret.me = StartBlack /\ ret.opp = StartWhite) => ret.moves = {19, 26, 37, 44}
        /\ (ret.me = StartWhite /\ ret.opp = StartBlack) => ret.moves = {20, 29, 34, 43}

\* A move on the a- or h-file found over a run of two or more discs.
C1_Witness ==
    /\ ret.op = "compute_moves"
    /\ \E s \in ret.moves :
        /\ File(s) \in {0, 7}
        /\ \E st \in Steps : Cardinality(BracketedRun(s, st, ret.me, ret.opp)) >= 2

\* C2: a successful apply_move_opt flips a non-empty set F of squares, all
\* opponent discs before and mover discs after; me' = me | m | F,
\* opp' = opp & ~F, and the two resulting bitboards are disjoint.
C2_ApplyFlips ==
    ret.op = "apply_ok" =>
        LET me == IF ret.is_white_move THEN ret.white ELSE ret.black
            opp == IF ret.is_white_move THEN ret.black ELSE ret.white
            new_me == IF ret.is_white_move THEN white ELSE black
            new_opp == IF ret.is_white_move THEN black ELSE white
        IN  \A F \in {FlippedBy(ret.move, me, opp)} :
            /\ F # {}
            /\ F \subseteq opp
            /\ F \subseteq new_me
            /\ opp \ new_opp = F
            /\ new_me = me \cup {ret.move} \cup F
            /\ new_opp = opp \ F
            /\ white \cap black = {}

\* A move that flips discs in more than one direction.
C2_Witness ==
    /\ ret.op = "apply_ok"
    /\ LET me == IF ret.is_white_move THEN ret.white ELSE ret.black
           opp == IF ret.is_white_move THEN ret.black ELSE ret.white
       IN  Cardinality({st \in Steps : BracketedRun(ret.move, st, me, opp) # {}}) >= 2

\* C3: apply_move_opt fails with "Square already occupied" exactly when the
\* square holds a disc of either colour, whatever the flips would be, and
\* with "No flips!" exactly when the square is empty and nothing would flip;
\* a failing call leaves the caller's board as it was.
C3_ApplyErrors ==
    /\ ret.op = "apply_err" =>
        LET me == IF ret.is_white_move THEN ret.white ELSE ret.black
            opp == IF ret.is_white_move THEN ret.black ELSE ret.white
        IN  /\ ret.err \in {"Square already occupied", "No flips!"}
            /\ (ret.err = "Square already occupied") <=> (ret.move \in me \cup opp)
            /\ (ret.err = "No flips!") =>
                   (ret.move \notin me \cup opp /\ FlippedBy(ret.move, me, opp) = {})
            /\ white = ret.white /\ black = ret.black
            /\ white_to_move = ret.is_white_move
    /\ ret.op = "apply_ok" =>
        LET me == IF ret.is_white_move THEN ret.white ELSE ret.black
            opp == IF ret.is_white_move THEN ret.black ELSE ret.white
        IN  ret.move \notin me \cup opp /\ FlippedBy(ret.move, me, opp) # {}

\* An occupied square from which nothing would flip: only the order of the
\* two tests makes the error "Square already occupied".
C3_Witness ==
    /\ ret.op = "apply_err"
    /\ ret.err = "Square already occupied"
    /\ LET me == IF ret.is_white_move THEN ret.white ELSE ret.black
           opp == IF ret.is_white_move THEN ret.black ELSE ret.white
       IN  FlippedBy(ret.move, me, opp) = {}

\* C4: check_game_status_alt returns the mover's legal-move mask when it is
\* non-empty, else ALL_ONES when the opponent can move, else ALL_ONES-1 /
\* ALL_ONES-2 / ALL_ONES-3 for more black discs / more white discs / equal
\* counts; a game-over value is returned exactly when neither side can move.
C4_StatusValues ==
    ret.op = "status" =>
        LET me == IF ret.is_white_move THEN ret.white ELSE ret.black
            opp == IF ret.is_white_move THEN ret.black ELSE ret.white
            nw == Cardinality(ret.white)
            nb == Cardinality(ret.black)
        IN  \A mine \in {LegalSquares(me, opp)}, theirs \in {LegalSquares(opp, me)} :
            /\ mine # {} => ret.outcome = mine
            /\ (mine = {} /\ theirs # {}) => ret.outcome = ALL_ONES
            /\ (mine = {} /\ theirs = {} /\ nb > nw) => ret.outcome = ALL_ONES_1
            /\ (mine = {} /\ theirs = {} /\ nw > nb) => ret.outcome = ALL_ONES_2
            /\ (mine = {} /\ theirs = {} /\ nw = nb) => ret.outcome = ALL_ONES_3
            /\ (ret.outcome \in {ALL_ONES_1, ALL_ONES_2, ALL_ONES_3})
                   <=> (mine = {} /\ theirs = {})

\* A finished game that white has won.
C4_Witness ==
    /\ ret.op = "status"
    /\ ret.outcome = ALL_ONES_2
    /\ Cardinality(ret.white) > Cardinality(ret.black)

\* C5: in every position reached by applied moves and passes the bitboards
\* are disjoint, the board holds the discs of the start plus one per applied
\* move (4 + ply from the standard start, so never fewer than four), and the
\* side to move has flipped after every applied move and every pass.
C5_PositionInvariant ==
    /\ white \cap black = {}
    /\ Cardinality(white \cup black)
           = Cardinality(start.white \cup start.black) + ply
    /\ StandardStart =>
           /\ Cardinality(white \cup black) = 4 + ply
           /\ Cardinality(white \cup black) >= 4
    /\ ret.op \in {"apply_ok", "pass"} => white_to_move = ~ret.is_white_move

\* Three moves into a game from the standard start.
C5_Witness ==
    /\ StandardStart
    /\ ply = 3
    /\ ret.op = "apply_ok"

\* The mover's and the opponent's discs of the position on the board.
Mover == IF white_to_move THEN white ELSE black
Opponent == IF white_to_move THEN black ELSE white

\* The value the search counts for the terminal position on the board.
TerminalValue ==
    IF Cardinality(white) > Cardinality(black) THEN -10000
    ELSE IF Cardinality(black) > Cardinality(white) THEN 10000
    ELSE 0

\* The <<c, eval, orig_eval>> of every root candidate c of the search in ret,
\* each child searched on its own to depth - 1 with the caller's own
\* (alpha, beta): orig_eval is the child's value one point nearer 0 beyond
\* +-5000 and eval is orig_eval seen from the mover.
RootChildren ==
    UNION {{<<c, IF white_to_move THEN -compress(r[2]) ELSE compress(r[2]),
              compress(r[2])>> :
               r \in LET np == apply_move_opt(white, black, {c}, white_to_move)
                     IN  search_moves_par(np.white, np.black, ~white_to_move,
                                          ret.depth - 1, ret.alpha, ret.beta,
                                          ret.depth, DEFAULT_CFG)} :
           c \in LegalSquares(Mover, Opponent)}

\* C6: with the full window (-20000, 20000), the default weights and a depth
\* of 1 or more, search_moves_par on a position where the mover has a legal
\* move returns one legal square and an evaluation in -10000..10000, and
\* applying the returned move succeeds and leaves disjoint bitboards.
C6_SearchReturnsLegalMove ==
    (/\ ret.op = "search_par"
     /\ ret.depth >= 1
     /\ ret.alpha = -20000 /\ ret.beta = 20000
     /\ LegalSquares(Mover, Opponent) # {}) =>
        \A r \in ret.results :
            /\ Cardinality(r[1]) = 1
            /\ r[1] \subseteq LegalSquares(Mover, Opponent)
            /\ r[1] \subseteq compute_moves(Mover, Opponent)
            /\ r[2] \in -10000..10000
            /\ LET np == apply_move_opt(white, black, r[1], white_to_move)
               IN  np.ok /\ np.white \cap np.black = {}

\* A depth-3 search of the standard start for black, which finds d3.
C6_Witness ==
    /\ ret.op = "search_par"
    /\ ret.depth = 3
    /\ ret.alpha = -20000 /\ ret.beta = 20000
    /\ white = StartWhite /\ black = StartBlack /\ ~white_to_move
    /\ \E r \in ret.results : r[1] = {19}

\* C7: on a position where neither side has a legal move, search_moves_opt
\* and search_moves_par return ALL_ONES with -10000 for more white discs,
\* +10000 for more black discs and 0 for equal counts, at every depth from 0
\* on and for every (alpha, beta).
C7_TerminalResult ==
    (LegalSquares(Mover, Opponent) = {} /\ LegalSquares(Opponent, Mover) = {}) =>
        /\ ret.op = "search_opt" => ret.result = <<ALL_ONES, TerminalValue>>
        /\ ret.op = "search_par" => ret.results = {<<ALL_ONES, TerminalValue>>}

\* Black to move against 63 white discs, searched at depth 0 with the narrow
\* window.
C7_Witness ==
    /\ ret.op = "search_par"
    /\ ret.depth = 0
    /\ ret.alpha = -10
    /\ white = Bits \ {0} /\ black = {0} /\ ~white_to_move
    /\ ret.results = {<<ALL_ONES, -10000>>}

\* C8: search_moves_par has one possible result whatever the grouping of the
\* parallel reduce: the root candidate with the greatest eval seen from the
\* mover, the lowest square among equals, with the orig_eval of that
\* candidate, every root child being searched with the caller's (alpha, beta).
C8_ParDeterministic ==
    (/\ ret.op = "search_par"
     /\ ret.depth >= 1
     /\ LegalSquares(Mover, Opponent) # {}) =>
        \A E \in {RootChildren} :
            /\ Cardinality(E) = Cardinality(LegalSquares(Mover, Opponent))
            /\ Cardinality(ret.results) = 1
            /\ \A r \in ret.results :
                 \E w \in E :
                    /\ r = <<{w[1]}, w[3]>>
                    /\ \A x \in E : x[2] < w[2] \/ (x[2] = w[2] /\ x[1] >= w[1])

\* A depth-3 search with the narrow window in which two or more root
\* candidates share the greatest eval.
C8_Witness ==
    /\ ret.op = "search_par"
    /\ ret.depth = 3
    /\ ret.alpha = -10
    /\ \E w \in RootChildren :
          /\ \A x \in RootChildren : x[2] <= w[2]
          /\ \E x \in RootChildren : x[2] = w[2] /\ x[1] # w[1]

\* C9: the hash kept by update_zobrist_hash, one call per move from
\* compute_zobrist_hash of the start, is compute_zobrist_hash of the position
\* reached.
C9_ZobristIncremental ==
    hash = compute_zobrist_hash([white |-> white, black |-> black])

\* The eight symmetries of the board, on (file, rank): the rotations by 0,
\* 90, 180 and 270 degrees and the reflections in the two axes and the two
\* diagonals.
Symmetries == 1..8

SymmetrySquare(t, i) ==
    LET f == File(i)
        r == Rank(i)
        fr == CASE t = 1 -> <<f, r>>
                [] t = 2 -> <<7 - r, f>>
                [] t = 3 -> <<7 - f, 7 - r>>
                [] t = 4 -> <<r, 7 - f>>
                [] t = 5 -> <<7 - f, r>>
                [] t = 6 -> <<f, 7 - r>>
                [] t = 7 -> <<r, f>>
                [] t = 8 -> <<7 - r, 7 - f>>
    IN  fr[2] * 8 + fr[1]

SymmetryImage(t, x) == {SymmetrySquare(t, i) : i \in x}

\* C10: after insert_all_rotations(pos, m) on a book, get of each of the
\* eight symmetric images of pos (black and white transformed alike, the side
\* to move kept) returns an entry whose suggested_moves holds the same image
\* of m.
C10_AllRotationsRetrievable ==
    ret.op = "insert_all_rotations" =>
        \A t \in Symmetries :
            LET e == get(book, [black |-> SymmetryImage(t, ret.pos.black),
                                white |-> SymmetryImage(t, ret.pos.white),
                                white_to_move |-> ret.pos.white_to_move])
            IN  e.some /\ contains(e.suggested_moves, SymmetryImage(t, ret.move))

\* A second position stored in a book that holds the images of the first:
\* the position has eight distinct images and an entry of the book holds
\* more than one move.
C10_Witness ==
    /\ ret.op = "insert_all_rotations"
    /\ ply = 1
    /\ Cardinality({SymmetryImage(t, ret.pos.black) : t \in Symmetries}) = 8
    /\ \E pos \in DOMAIN book : Len(book[pos]) >= 2

\* C11: probe(hash, alpha, beta) returns the stored (value, best_move) of the
\* slot at index hash mod 2^size exactly when the slot's key is hash and its
\* flag is Exact, or AlphaBound (the lower bound) with value >= beta, or
\* BetaBound (the upper bound) with value <= alpha; in every other case,
\* a key mismatch and a never-written slot included, it returns
\* (-163840, 0).
C11_ProbeContract ==
    ret.op = "probe" =>
        LET e == tt.entries[ret.hash % Pow2(tt.size)]
            usable == /\ e.key = ret.hash
                      /\ \/ e.flag = "Exact"
                         \/ e.flag = "AlphaBound" /\ e.value >= ret.beta
                         \/ e.flag = "BetaBound" /\ e.value <= ret.alpha
        IN  /\ usable => ret.result = <<e.value, e.best_move>>
            /\ ~usable => ret.result = <<-163840, 0>>

\* A probe that hits a lower bound lying exactly on beta, in a table where
\* another hash has written to another slot.
C11_Witness ==
    /\ ret.op = "probe"
    /\ tt.size = 1
    /\ tt.entries[ret.index].flag = "AlphaBound"
    /\ tt.entries[ret.index].value = ret.beta
    /\ ret.result = <<5, 2>>
    /\ tt.entries[1 - ret.index].flag = "BetaBound"

\* The insert_position calls whose hash has i as its low tt.size bits.
CallsOnSlot(i) == {k \in 1..Len(calls) : calls[k].key % Pow2(tt.size) = i}

\* C12: after any sequence of insert_position and probe calls on a table
\* made by new(size), the table has the slots 0 .. 2^size - 1, slot i holds
\* the (hash, value, flag, move) of the latest insert whose hash is i modulo
\* 2^size, or the default entry when there was none; an insert leaves every
\* other slot as it was, probe leaves every slot as it was, and the index
\* computed is below 2^size.
C12_SlotHoldsLastInsert ==
    /\ DOMAIN tt.entries = 0..(Pow2(tt.size) - 1)
    /\ \A i \in DOMAIN tt.entries :
          tt.entries[i] =
              IF CallsOnSlot(i) = {}
              THEN TTEntry_default
              ELSE calls[CHOOSE k \in CallsOnSlot(i) :
                             \A j \in CallsOnSlot(i) : j <= k]
    /\ ret.op \in {"tt_insert", "probe"} =>
          ret.index \in 0..(Pow2(tt.size) - 1)
    /\ ret.op = "tt_insert" =>
          \A i \in DOMAIN tt.entries \ {ret.index} :
              tt.entries[i] = ret.before.entries[i]
    /\ ret.op = "probe" => tt = ret.before

\* Two inserts with different hashes on the same slot of a two-slot table,
\* the second one probed after it overwrote the first; the other slot was
\* never written.
C12_Witness ==
    /\ ret.op = "probe"
    /\ tt.size = 1
    /\ Len(calls) = 2
    /\ calls[1].key = 0
    /\ calls[2].key = 2
    /\ ret.hash = 2
    /\ ret.result = <<calls[2].value, calls[2].best_move>>
    /\ tt.entries[1] = TTEntry_default

\* popcount(s) + corner * popcount(s & CORNER) + edge * popcount(s & EDGE)
\* + anti_edge * popcount(s & ANTI_EDGE) + anti_corner * popcount(s & ANTI_CORNER)
Score(s, W) ==
    Cardinality(s)
    + W.corner_value * Cardinality(s \cap CORNER_MASK)
    + W.edge_value * Cardinality(s \cap EDGE_MASK)
    + W.antiedge_value * Cardinality(s \cap ANTIEDGE_MASK)
    + W.anticorner_value * Cardinality(s \cap ANTICORNER_MASK)

\* C13: eval_position_with_cfg(white, black, W) is Score(black, W) -
\* Score(white, W); with the weights corner 10, edge 5, others 0 it is the
\* value of eval_position on the same position, which is 7 on white =
\* 4325574457067520514, black = 33909430323788925; on the standard start it
\* is 0 whatever the weights.
C13_EvalFormula ==
    ret.op = "eval" =>
        /\ ret.value = Score(ret.black, ret.cfg) - Score(ret.white, ret.cfg)
        /\ (ret.cfg.corner_value = 10 /\ ret.cfg.edge_value = 5
            /\ ret.cfg.antiedge_value = 0 /\ ret.cfg.anticorner_value = 0)
           => /\ ret.value = ret.legacy
              /\ (ret.white = U64(\H3c07, \H870d, \H0303, \H4202)
                  /\ ret.black = U64(\H0078, \H7872, \H7cfc, \H3c7d))
                 => ret.value = 7
        /\ (ret.white = StartWhite /\ ret.black = StartBlack)
           => ret.value = 0

\* The position of test_eval_position is evaluated with the weights of
\* eval_position, after a move was played on it: discs of both sides lie on
\* corners and on squares of EDGE.
C13_Witness ==
    /\ ret.op = "eval"
    /\ ret.cfg.corner_value = 10
    /\ ret.cfg.antiedge_value = 0
    /\ start.white = U64(\H3c07, \H870d, \H0303, \H4202)
    /\ ply = 1
    /\ ret.white \cap CORNER_MASK # {}
    /\ ret.black \cap CORNER_MASK # {}
    /\ ret.white \cap EDGE_MASK # {}
    /\ ret.black \cap EDGE_MASK # {}
    /\ ret.value # 0

RECURSIVE ElementaryInserts(_)
\* The insert_position calls made on the book by the first n calls, those
\* made inside insert_all_rotations included, as (position, move) pairs.
ElementaryInserts(n) ==
    IF n = 0 THEN <<>>
    ELSE ElementaryInserts(n - 1)
         \o (IF calls[n].op = "insert_position"
             THEN << <<calls[n].pos, calls[n].move>> >>
             ELSE rotation_calls(calls[n].pos, calls[n].move, 4))

RECURSIVE FirstInserted(_, _, _)
\* The moves inserted for pos among the first n pairs of F, each once, in
\* the order of its first insertion.
FirstInserted(F, pos, n) ==
    IF n = 0 THEN <<>>
    ELSE IF F[n][1] = pos /\ ~\E j \in 1..(n - 1) : F[j] = F[n]
         THEN Append(FirstInserted(F, pos, n - 1), F[n][2])
         ELSE FirstInserted(F, pos, n - 1)

\* C14: after any sequence of insert_position and insert_all_rotations
\* calls, the book has an entry for exactly the positions inserted, each
\* entry lists the moves inserted for its position once each, in the order of
\* their first insertion; an insert_position of a move the entry already
\* holds leaves the book as it was.
C14_EntriesDedupInOrder ==
    \A F \in {ElementaryInserts(Len(calls))} :
        /\ DOMAIN book = {F[i][1] : i \in DOMAIN F}
        /\ \A pos \in DOMAIN book :
              /\ book[pos] = FirstInserted(F, pos, Len(F))
              /\ \A i, j \in DOMAIN book[pos] :
                    book[pos][i] = book[pos][j] => i = j
        /\ (/\ ret.op = "book_insert_position"
            /\ ret.pos \in DOMAIN ret.before
            /\ contains(ret.before[ret.pos], ret.move))
           => book = ret.before

\* The start's entry holds four moves from insert_all_rotations, and
\* insert_position is then called with one the entry already holds, which is
\* not the entry's first.
C14_Witness ==
    /\ ret.op = "book_insert_position"
    /\ Len(calls) = 2
    /\ calls[1].op = "insert_all_rotations"
    /\ ret.pos \in DOMAIN ret.before
    /\ Len(ret.before[ret.pos]) = 4
    /\ contains(ret.before[ret.pos], ret.move)
    /\ ret.before[ret.pos][1] # ret.move

\* C15: on every position with disjoint bitboards, for either side to move
\* and every single-bit move, apply_move_opt, apply_move and
\* apply_move_verbose all succeed with the same (white, black) or all fail,
\* and each reports the occupied square exactly when the others do.
C15_ApplyMovesAgree ==
    ret.op = "apply_all" =>
        \A other \in {ret.scan, ret.verbose} :
            /\ ret.opt.ok <=> other.ok
            /\ ret.opt.ok =>
                  (ret.opt.white = other.white /\ ret.opt.black = other.black)
            /\ (ret.opt.err = "Square already occupied")
               <=> (other.err = "Square already occupied")

\* A move played after another one that turns discs in two directions at
\* least: the discs turned do not lie on one line with the square.
C15_Witness ==
    /\ ret.op = "apply_all"
    /\ ply >= 1
    /\ ret.white \cap ret.black = {}
    /\ ret.opt.ok
    /\ ret.scan.ok
    /\ \E d1, d2 \in Dirs :
          /\ d1 # d2
          /\ flip_in_dir({ret.move}, IF ret.is_white_move THEN ret.white ELSE ret.black,
                         IF ret.is_white_move THEN ret.black ELSE ret.white, d1) # {}
          /\ flip_in_dir({ret.move}, IF ret.is_white_move THEN ret.white ELSE ret.black,
                         IF ret.is_white_move THEN ret.black ELSE ret.white, d2) # {}

\* C16, as stated: generate_opening_book run on an empty book with
\* full_depth = 0, partial_depth = 1 and calculation_depth = 2 leaves a book
\* with exactly eight entries.
C16_EightEntries ==
    (/\ ret.op = "generate_opening_book"
     /\ ret.full_depth = 0
     /\ ret.partial_depth = 1
     /\ ret.calculation_depth = 2)
    => Cardinality(DOMAIN book) = 8

\* C16, amended: that run leaves a book with exactly two entries, the
\* standard start and its quarter turn, both with black to move, and each
\* entry lists four moves: the eight symmetric images of the start's move.
C16_TwoEntriesOfFourMoves ==
    (/\ ret.op = "generate_opening_book"
     /\ ret.full_depth = 0
     /\ ret.partial_depth = 1
     /\ ret.calculation_depth = 2)
    => /\ DOMAIN book =
             { [black |-> StartBlack, white |-> StartWhite,
                white_to_move |-> FALSE],
               [black |-> StartWhite, white |-> StartBlack,
                white_to_move |-> FALSE] }
       /\ \A pos \in DOMAIN book : Len(book[pos]) = 4
       /\ \E m \in LegalSquares(StartBlack, StartWhite) :
             \A t \in Symmetries :
                 contains(book[[black |-> SymmetryImage(t, StartBlack),
                                white |-> SymmetryImage(t, StartWhite),
                                white_to_move |-> FALSE]],
                          SymmetryImage(t, {m}))

\* The run with full_depth = 0, partial_depth = 1, calculation_depth = 2
\* has returned.
C16_Witness ==
    /\ ret.op = "generate_opening_book"
    /\ ret.full_depth = 0
    /\ ret.partial_depth = 1
    /\ ret.calculation_depth = 2
    /\ gen.pc = "done"
    /\ Len(gen.queue) = 1
    /\ gen.next_queue = <<>>
    /\ book # <<>>

\* The side to move of the position searched has no legal move and the other
\* side has one.
MoverMustPass ==
    /\ LegalSquares(Mover, Opponent) = {}
    /\ LegalSquares(Opponent, Mover) # {}

\* C17: when the side to move has no legal move and the opponent has one,
\* search_moves_opt and search_moves_par return ALL_ONES as the move and, as
\* the evaluation, the one of the search of the same board at the same depth
\* with the other side to move.
C17_PassKeepsDepth ==
    /\ (ret.op = "search_opt" /\ MoverMustPass) =>
          ret.result =
              <<ALL_ONES,
                search_moves_opt(white, black, ~white_to_move, ret.depth,
                                 ret.alpha, ret.beta, ret.depth, DEFAULT_CFG)[2]>>
    /\ (ret.op = "search_par" /\ MoverMustPass) =>
          \A r \in ret.results :
              /\ r[1] = ALL_ONES
              /\ \/ r[2] = search_moves_opt(white, black, ~white_to_move,
                                            ret.depth, ret.alpha, ret.beta,
                                            ret.depth, DEFAULT_CFG)[2]
                 \/ \E q \in search_moves_par(white, black, ~white_to_move,
                                              ret.depth, ret.alpha, ret.beta,
                                              ret.depth, DEFAULT_CFG) :
                       r[2] = q[2]

RECURSIVE Minimax(_, _, _, _, _)

\* The evaluations of the children of a position whose legal moves are
\* outcome, each after the mate-distance step.
MinimaxChildren(w, b, is_white_move, depth, cfg, outcome) ==
    { compress(Minimax(r.white, r.black, ~is_white_move, depth - 1, cfg)) :
        r \in {apply_move_opt(w, b, {s}, is_white_move) : s \in outcome} }

\* The mover's pick among the children's evaluations V.
MinimaxPick(V, is_white_move) ==
    IF is_white_move
    THEN CHOOSE v \in V : \A u \in V : v <= u
    ELSE CHOOSE v \in V : \A u \in V : v >= u

\* Minimax from the status on: black takes the greatest child, white the
\* least.
MinimaxOnStatus(w, b, is_white_move, depth, cfg, outcome) ==
    IF outcome = ALL_ONES_2 THEN -10000
    ELSE IF outcome = ALL_ONES_1 THEN 10000
    ELSE IF outcome = ALL_ONES_3 THEN 0
    ELSE IF outcome = ALL_ONES THEN Minimax(w, b, ~is_white_move, depth, cfg)
    ELSE IF depth = 0 THEN eval_position_with_cfg(w, b, cfg)
    ELSE MinimaxPick(MinimaxChildren(w, b, is_white_move, depth, cfg, outcome),
                     is_white_move)

\* The search with no cutoff: the terminal values, the pass, the depth-0
\* evaluation and the mate-distance step are those of search_moves_opt.
Minimax(w, b, is_white_move, depth, cfg) ==
    MinimaxOnStatus(w, b, is_white_move, depth, cfg,
                    check_game_status_alt(w, b, is_white_move))

ChildAfter(s) == apply_move_opt(white, black, {s}, white_to_move)

SquareClass(i) ==
    IF File(i) \in {0, 7} /\ Rank(i) \in {0, 7} THEN 1
    ELSE IF File(i) \in {0, 1, 6, 7} /\ Rank(i) \in {0, 1, 6, 7} THEN 4
    ELSE IF File(i) \in {0, 7} \/ Rank(i) \in {0, 7} THEN 2
    ELSE 3

RECURSIVE TriedInOrder(_)
\* The candidates the move loop takes from the masks st, in order, when no
\* cutoff ends it.
TriedInOrder(st) ==
    IF st.corner_moves = {} /\ st.edge_moves = {} /\ st.other_moves = {}
       /\ st.shit_moves = {}
    THEN <<>>
    ELSE <<next_candidate(st).candidate>> \o TriedInOrder(next_candidate(st).st)

\* C19: in the move loop of search_moves_opt the four masks are pairwise
\* disjoint and their union is the legal-move mask; every legal move is
\* taken once, corners first, then edge squares, then interior squares, then
\* the squares next to a corner, the lower bit first inside a class.
C19_MoveClassesPartition ==
    (/\ ret.op = "search_opt"
     /\ ret.depth > 0
     /\ check_game_status_alt(white, black, white_to_move)
            \notin {ALL_ONES, ALL_ONES_1, ALL_ONES_2, ALL_ONES_3})
    => \A outcome \in {check_game_status_alt(white, black, white_to_move)} :
       \A T \in {TriedInOrder(move_classes(outcome))} :
          /\ \A c1, c2 \in DOMAIN move_classes(outcome) :
                c1 # c2 => move_classes(outcome)[c1] \cap move_classes(outcome)[c2] = {}
          /\ UNION {move_classes(outcome)[c] : c \in DOMAIN move_classes(outcome)}
                = outcome
          /\ Len(T) = Cardinality(outcome)
          /\ {T[i] : i \in DOMAIN T} = {{s} : s \in outcome}
          /\ \A i, j \in DOMAIN T :
                i < j =>
                    \A si \in T[i], sj \in T[j] :
                        \/ SquareClass(si) < SquareClass(sj)
                        \/ SquareClass(si) = SquareClass(sj) /\ si < sj

\* The masks of eval_position_with_cfg a disc on square i lies in.
MasksOf(i) ==
    {m \in {"corner", "edge", "antiedge", "anticorner"} :
        i \in (CASE m = "corner" -> CORNER_MASK
                 [] m = "edge" -> EDGE_MASK
                 [] m = "antiedge" -> ANTIEDGE_MASK
                 [] m = "anticorner" -> ANTICORNER_MASK)}

\* C20: CORNER, EDGE, ANTI_EDGE and ANTI_CORNER are pairwise disjoint, EDGE
\* holds only edge squares that are neither corners nor next to a corner,
\* and so every disc of an evaluated position lies in one mask at most.
C20_MasksDisjoint ==
    ret.op = "eval" =>
        /\ CORNER_MASK \cap EDGE_MASK = {}
        /\ CORNER_MASK \cap ANTIEDGE_MASK = {}
        /\ CORNER_MASK \cap ANTICORNER_MASK = {}
        /\ EDGE_MASK \cap ANTIEDGE_MASK = {}
        /\ EDGE_MASK \cap ANTICORNER_MASK = {}
        /\ ANTIEDGE_MASK \cap ANTICORNER_MASK = {}
        /\ \A i \in EDGE_MASK : SquareClass(i) = 2
        /\ \A i \in ret.white \cup ret.black : Cardinality(MasksOf(i)) <= 1

\* The searched position is not one the mover passes on, and no move of the
\* mover leads to one: the parallel layers of search_moves_par meet no pass.
NoPassInParLayers ==
    /\ compute_moves(Mover, Opponent) # {}
    /\ \A s \in compute_moves(Mover, Opponent) :
          check_game_status_alt(ChildAfter(s).white, ChildAfter(s).black,
                                ~white_to_move) # ALL_ONES

\* C21: the mate-distance step is taken at every move ply, those of
\* search_moves_par included: with the full window the evaluation returned
\* is the one of the search with no cutoff that takes the step at every ply,
\* so a win or a loss k move plies below the position searched comes back as
\* 10000 - k or k - 10000.
C21_MateDistanceEveryPly ==
    /\ (ret.op = "search_opt" /\ ret.alpha = -20000 /\ ret.beta = 20000) =>
          ret.result[2] = Minimax(white, black, white_to_move, ret.depth,
                                  DEFAULT_CFG)
    /\ (/\ ret.op = "search_par"
        /\ ret.alpha = -20000
        /\ ret.beta = 20000
        /\ ret.depth > 0
        /\ NoPassInParLayers) =>
          \A r \in ret.results :
              r[2] = Minimax(white, black, white_to_move, ret.depth, DEFAULT_CFG)

\* The mover of the position searched has a move and the search has a depth
\* left: search_moves_opt runs its move loop.
RunsMoveLoop ==
    /\ ret.depth > 0
    /\ check_game_status_alt(white, black, white_to_move)
           \notin {ALL_ONES, ALL_ONES_1, ALL_ONES_2, ALL_ONES_3}

\* C22: in the move loop of a search_moves_opt node the window only
\* tightens: the alpha handed to a child is not below the alpha the node
\* was called with nor below the alpha handed to an earlier child, and the
\* beta handed to a child is not above the beta the node was called with nor
\* above the beta handed to an earlier child.
C22_WindowOnlyTightens ==
    (ret.op = "search_opt" /\ RunsMoveLoop) =>
        \A Wn \in {opt_windows(white, black, white_to_move, ret.depth, ret.depth,
                      DEFAULT_CFG,
                      opt_loop_start(check_game_status_alt(white, black,
                                         white_to_move),
                                     ret.alpha, ret.beta))} :
            /\ \A i \in DOMAIN Wn : Wn[i][1] >= ret.alpha /\ Wn[i][2] <= ret.beta
            /\ \A i, j \in DOMAIN Wn :
                  i < j => Wn[i][1] <= Wn[j][1] /\ Wn[i][2] >= Wn[j][2]

\* C23: a search_moves_opt node that runs its move loop has probed the
\* transposition table before the loop and stores its result when it
\* returns: an Exact entry when the loop ran to its end, a bound entry on a
\* cutoff.  So once the call has returned, an insert_position call holding
\* the move and the evaluation returned has been made on the table.
C23_SearchUsesTable ==
    (ret.op = "search_opt" /\ RunsMoveLoop) =>
        \E k \in DOMAIN calls :
            /\ calls[k].flag \in {"Exact", "AlphaBound", "BetaBound"}
            /\ calls[k].value = ret.result[2]
            /\ calls[k].best_move = ret.result[1]

\* C29: every move generate_opening_book stores is one square, a legal
\* move of the mover of the position it is stored under; the ALL_ONES and
\* 0 the search returns when it has no move to give are never stored.
C29_StoredMovesLegal ==
    gen.pc \in {"loop", "done"} =>
        \A pos \in DOMAIN book :
            \A j \in DOMAIN book[pos] :
                \E m \in Bits :
                    /\ book[pos][j] = {m}
                    /\ m \in LegalSquares(
                               IF pos.white_to_move THEN pos.white ELSE pos.black,
                               IF pos.white_to_move THEN pos.black ELSE pos.white)

\* A step of generate_opening_book that takes one position from the queue.
GenPositionStep ==
    /\ gen.pc = "loop"
    /\ gen.queue # <<>>
    /\ gen'.pc = "loop"
    /\ gen'.queue = Tail(gen.queue)
    /\ gen'.depth = gen.depth

\* The positions a step has added to next_queue.
Enqueued == SubSeq(gen'.next_queue, Len(gen.next_queue) + 1, Len(gen'.next_queue))

\* The position reached from pos by the mover's move on square m.
GenChild(pos, m) ==
    [black |-> apply_move_opt(pos.white, pos.black, {m}, pos.white_to_move).black,
     white |-> apply_move_opt(pos.white, pos.black, {m}, pos.white_to_move).white,
     white_to_move |-> ~pos.white_to_move]

\* The image of a position under symmetry t.
SymmetryPosition(t, pos) ==
    [black |-> SymmetryImage(t, pos.black), white |-> SymmetryImage(t, pos.white),
     white_to_move |-> pos.white_to_move]

\* C24: a queued position that the book does not hold gets a best move m
\* stored under all eight symmetries; at a layer below full_depth the
\* positions enqueued are its children by every legal move, one each, and
\* from full_depth on the one position enqueued is its child by m.
C24_AbsentPositionStep ==
    [][(GenPositionStep /\ Head(gen.queue) \notin DOMAIN book) =>
          \A pos \in {Head(gen.queue)} :
          \A legal \in {LegalSquares(
                            IF pos.white_to_move THEN pos.white ELSE pos.black,
                            IF pos.white_to_move THEN pos.black ELSE pos.white)} :
              \E m \in legal :
                  /\ \A t \in Symmetries :
                        /\ SymmetryPosition(t, pos) \in DOMAIN book'
                        /\ contains(book'[SymmetryPosition(t, pos)],
                                    SymmetryImage(t, {m}))
                  /\ IF gen.depth < gen.full_depth
                     THEN /\ Len(Enqueued) = Cardinality(legal)
                          /\ {Enqueued[i] : i \in DOMAIN Enqueued}
                                = {GenChild(pos, s) : s \in legal}
                     ELSE Enqueued = <<GenChild(pos, m)>>]_vars

\* C25: the book is saved after every position taken from the queue, at
\* every layer and whether the position was searched or found in the book,
\* and once more when the layers are done: while the loop runs there are as
\* many saves as positions taken, and one more once the function returns.
C25_SavedAfterEachPosition ==
    /\ gen.pc = "loop" => gen.saves = gen.positions
    /\ gen.pc = "done" => gen.saves = gen.positions + 1

\* C26: on a position with disjoint bitboards an empty square is a bit of
\* compute_moves(me, opp) exactly when apply_move_opt succeeds on it for the
\* same mover, and apply_move_opt refuses no bit of the legal-move mask.
C26_GenerationMatchesApplication ==
    (ret.op = "apply_all" /\ ret.white \cap ret.black = {}) =>
        \A legal \in {compute_moves(
                          IF ret.is_white_move THEN ret.white ELSE ret.black,
                          IF ret.is_white_move THEN ret.black ELSE ret.white)} :
            /\ ret.move \notin ret.white \cup ret.black =>
                  (ret.move \in legal <=> ret.opt.ok)
            /\ ret.move \in legal => ret.opt.ok

\* A legal move taken after another move that turns a run of two discs or
\* more in one direction.
C26_Witness ==
    /\ ret.op = "apply_all"
    /\ ply >= 1
    /\ ret.white \cap ret.black = {}
    /\ ret.opt.ok
    /\ ret.move \in compute_moves(
                        IF ret.is_white_move THEN ret.white ELSE ret.black,
                        IF ret.is_white_move THEN ret.black ELSE ret.white)
    /\ \E d \in Dirs :
          Cardinality(flip_in_dir({ret.move},
                          IF ret.is_white_move THEN ret.white ELSE ret.black,
                          IF ret.is_white_move THEN ret.black ELSE ret.white, d)) >= 2

\* The measure that goes down along the searches' calls: twice the depth,
\* plus one on a position the mover passes on.
CallRank(w, b, is_white_move, depth) ==
    2 * depth
    + (IF check_game_status_alt(w, b, is_white_move) = ALL_ONES THEN 1 ELSE 0)

\* The calls made by a search of the position of the state at the given
\* depth: by search_moves_opt, by search_moves_par at its root and by
\* search_moves_par one ply below its root.
CallsAt(depth) ==
    opt_calls(white, black, white_to_move, depth,
              check_game_status_alt(white, black, white_to_move))
    \cup par_calls(white, black, white_to_move, depth, depth,
                   check_game_status_alt(white, black, white_to_move))
    \cup par_calls(white, black, white_to_move, depth, depth + 1,
                   check_game_status_alt(white, black, white_to_move))

\* C27: the searches terminate.  Every call a search makes has a depth that
\* is no less than 0 and is below the caller's, but for the pass of
\* search_moves_opt, which keeps the depth and is made on a position whose
\* flipped side has a legal move: so the measure 2 * depth + (1 on a pass
\* position) goes down with every call.
C27_CallsDescend ==
    ret.op \in {"search_opt_full", "search_par_full"} =>
        \A depth \in 0..ret.depth :
            \A c \in CallsAt(depth) :
                /\ c.depth >= 0
                /\ c.depth <= depth
                /\ c.depth = depth =>
                      compute_moves(IF c.is_white_move THEN c.white ELSE c.black,
                                    IF c.is_white_move THEN c.black ELSE c.white)
                          # {}
                /\ CallRank(c.white, c.black, c.is_white_move, c.depth)
                      < CallRank(white, black, white_to_move, depth)

\* A search of depth 2 on a position the mover passes on: search_moves_opt
\* calls itself at the same depth.
C27_Witness ==
    /\ ret.op \in {"search_opt_full", "search_par_full"}
    /\ ret.depth = 2
    /\ check_game_status_alt(white, black, white_to_move) = ALL_ONES
    /\ \E c \in CallsAt(2) : c.depth = 2

\* The three transforms of openingbook.rs on a bitboard, by name.
BoardTransforms == {"rotate90", "flip_vertical", "flip_horizontal"}

Transformed(T, x) ==
    CASE T = "rotate90" -> rotate90(x)
      [] T = "flip_vertical" -> flip_vertical(x)
      [] T = "flip_horizontal" -> flip_horizontal(x)

\* C28: rotate90, flip_vertical and flip_horizontal commute with the rules.
\* For a move applied to a position: the legal moves of the transformed
\* position are the transformed legal moves, the transformed move applied
\* to the transformed position gives the transformed result, and every
\* entry insert_all_rotations makes for the position and the move holds
\* one move, legal in the position of the entry.
C28_SymmetriesCommute ==
    (ret.op = "apply_ok" /\ ret.white \cap ret.black = {}) =>
        /\ \A T \in BoardTransforms :
           \A me \in {IF ret.is_white_move THEN ret.white ELSE ret.black} :
           \A opp \in {IF ret.is_white_move THEN ret.black ELSE ret.white} :
           \A rt \in {apply_move_opt(Transformed(T, ret.white),
                                     Transformed(T, ret.black),
                                     Transformed(T, {ret.move}),
                                     ret.is_white_move)} :
              /\ compute_moves(Transformed(T, me), Transformed(T, opp))
                    = Transformed(T, compute_moves(me, opp))
              /\ rt.ok
              /\ rt.white = Transformed(T, white)
              /\ rt.black = Transformed(T, black)
        /\ \A stored \in {insert_all_rotations(<<>>,
                              [black |-> ret.black, white |-> ret.white,
                               white_to_move |-> ret.is_white_move],
                              {ret.move})} :
              /\ Cardinality(DOMAIN stored)
                    = Cardinality({<<SymmetryImage(t, ret.black),
                                     SymmetryImage(t, ret.white)>> :
                                       t \in Symmetries})
              /\ \A pos \in DOMAIN stored :
                 \A j \in DOMAIN stored[pos] :
                    /\ Cardinality(stored[pos][j]) = 1
                    /\ stored[pos][j] \subseteq
                          compute_moves(
                              IF pos.white_to_move THEN pos.white ELSE pos.black,
                              IF pos.white_to_move THEN pos.black ELSE pos.white)

\* A move that turned discs in two directions, on a position that has eight
\* distinct images.
C28_Witness ==
    /\ ret.op = "apply_ok"
    /\ ret.white \cap ret.black = {}
    /\ Cardinality({<<SymmetryImage(t, ret.black), SymmetryImage(t, ret.white)>> :
                       t \in Symmetries}) = 8
    /\ Cardinality({d \in Dirs :
           flip_in_dir({ret.move},
                       IF ret.is_white_move THEN ret.white ELSE ret.black,
                       IF ret.is_white_move THEN ret.black ELSE ret.white, d) # {}})
          >= 2

\* What one round of local_game's loop leaves behind is in order: the depth
\* it gave the search is at most the number of empty squares; a round that
\* is not a PASS applied a move that added one disc; a PASS was printed for
\* a side with no legal move whose opponent has one; the loop goes on with a
\* position where a side can move and is left with one where neither can.
LocalGameRoundInOrder ==
    (ret.op = "local_game" /\ ply >= 1) =>
        /\ ret.pc \in {"loop", "break"}
        /\ ret.depth <= 64 - count_ones(ret.white \cup ret.black)
        /\ ret.line \in {"Ply", "score", "PASS"}
        /\ ret.line \in {"Ply", "score"} =>
              /\ ret.new_white \cap ret.new_black = {}
              /\ count_ones(ret.new_white \cup ret.new_black)
                    = count_ones(ret.white \cup ret.black) + 1
              /\ ret.white \cup ret.black \subseteq ret.new_white \cup ret.new_black
        /\ ret.line = "Ply" => white = ret.new_white /\ black = ret.new_black
        /\ ret.line = "PASS" =>
              /\ white = ret.white /\ black = ret.black
              /\ compute_moves(IF ret.is_white_move THEN ret.white ELSE ret.black,
                               IF ret.is_white_move THEN ret.black ELSE ret.white)
                    = {}
              /\ compute_moves(IF ret.is_white_move THEN ret.black ELSE ret.white,
                               IF ret.is_white_move THEN ret.white ELSE ret.black)
                    # {}
        /\ ret.pc = "loop" =>
              compute_moves(white, black) \cup compute_moves(black, white) # {}
        /\ ret.pc = "break" =>
              /\ compute_moves(ret.new_white, ret.new_black) = {}
              /\ compute_moves(ret.new_black, ret.new_white) = {}

\* The rounds local_game can still make: two for every empty square, one
\* less after a PASS, none once the loop is left.
LocalGameRank ==
    IF ret.pc # "loop" THEN 0
    ELSE 2 * (64 - count_ones(white \cup black))
         + (IF ret.line = "PASS" THEN 0 ELSE 1)

\* C30: local_game from the standard position with the empty book and
\* search_depth >= 1 terminates: every round is in order (the depth is at
\* most the number of empty squares, a round that is not a PASS adds one
\* disc, a PASS is for a side with no move whose opponent has one, the loop
\* is left once neither side can move), a PASS is never followed by another
\* PASS, and every round brings the end nearer: LocalGameRank, which is
\* never negative, falls with every round, and while the loop runs the
\* search has an answer to go on with.
C30_LocalGameTerminates ==
    /\ []LocalGameRoundInOrder
    /\ []((ret.op = "local_game" /\ ret.pc = "loop") =>
             main_search_moves_par(
                 white, black, white_to_move,
                 local_game_depth(white, black, ret.default_depth), -2000, 2000,
                 local_game_depth(white, black, ret.default_depth)) # {})
    /\ [][/\ ret.line = "PASS" => ret'.line # "PASS"
          /\ LocalGameRank' < LocalGameRank
          /\ LocalGameRank' >= 0]_vars

\* The loop has been left on a full board after 61 rounds: 60 moves and a
\* PASS.
C30_Witness ==
    /\ ret.op = "local_game"
    /\ ret.pc = "break"
    /\ ply = 61
    /\ count_ones(ret.new_white \cup ret.new_black) = 64

====
